---------------------------- MODULE Spec2Model ----------------------------
(***************************************************************************)
(* A model of the convex-hull kernel of isl (src/isl_convex_hull.c).       *)
(*                                                                         *)
(* An affine form c0 + c1*x1 + ... + cn*xn is a tuple <<c0, c1, ..., cn>>  *)
(* (TLA+ index 1 is the constant term, C index 0).  A basic set is a       *)
(* record [eq, ineq, empty, nored]: its equalities, its inequalities, the  *)
(* EMPTY flag and the NO_REDUNDANT flag.  A set (union) is a sequence of   *)
(* basic sets.  The absent result (C NULL) is the record NULL.             *)
(***************************************************************************)
EXTENDS Integers, Sequences, FiniteSets, TLC

VARIABLES pc, set, hull, aux

vars == <<pc, set, hull, aux>>

(***************************************************************************)
(* Integer and sequence primitives (isl_int, isl_seq).                     *)
(***************************************************************************)
Abs(x) == IF x < 0 THEN -x ELSE x

Sgn(x) == IF x < 0 THEN -1 ELSE IF x > 0 THEN 1 ELSE 0

Min2(a, b) == IF a <= b THEN a ELSE b

Max2(a, b) == IF a >= b THEN a ELSE b

RECURSIVE Gcd(_, _)
Gcd(a, b) == IF b = 0 THEN Abs(a) ELSE Gcd(b, a % Abs(b))

RECURSIVE GcdFrom(_, _)
GcdFrom(r, i) == IF i > Len(r) THEN 0 ELSE Gcd(r[i], GcdFrom(r, i + 1))

\* isl_seq_gcd over the whole row
isl_seq_gcd(r) == GcdFrom(r, 1)

isl_seq_neg(r) == [i \in DOMAIN r |-> -r[i]]

isl_seq_scale(r, m) == [i \in DOMAIN r |-> m * r[i]]

isl_seq_scale_down(r, m) == [i \in DOMAIN r |-> r[i] \div m]

\* dst = m1 * src1 + m2 * src2
isl_seq_combine(m1, src1, m2, src2) == [i \in DOMAIN src1 |-> m1 * src1[i] + m2 * src2[i]]

\* the linear part of a row (the C expression row + 1)
Lin(r) == SubSeq(r, 2, Len(r))

IsZeroSeq(s) == \A i \in DOMAIN s : s[i] = 0

isl_seq_eq(p, q) == p = q

isl_seq_is_neg(p, q) == p = isl_seq_neg(q)

\* 0-based index of the first non-zero entry of s, -1 if there is none
isl_seq_first_non_zero(s) ==
    IF IsZeroSeq(s) THEN -1
    ELSE (CHOOSE i \in DOMAIN s : s[i] # 0 /\ \A j \in 1..(i - 1) : s[j] = 0) - 1

\* 0-based index of the last non-zero entry of s, -1 if there is none
LastNonZero(s) ==
    IF IsZeroSeq(s) THEN -1
    ELSE (CHOOSE i \in DOMAIN s : s[i] # 0 /\ \A j \in (i + 1)..Len(s) : s[j] = 0) - 1

\* isl_seq_elim: eliminate position pos (TLA+ index) of dst using src; the
\* multiplier of dst is positive
ElimBy(dst, src, pos, g) ==
    isl_seq_combine(Abs(src[pos]) \div g, dst,
                    IF src[pos] > 0 THEN -(dst[pos] \div g) ELSE dst[pos] \div g, src)

isl_seq_elim(dst, src, pos) ==
    IF dst[pos] = 0 THEN dst ELSE ElimBy(dst, src, pos, Gcd(src[pos], dst[pos]))

RemoveAt(s, i) == SubSeq(s, 1, i - 1) \o SubSeq(s, i + 1, Len(s))

RECURSIVE SeqToSet(_)
SeqToSet(s) == IF s = <<>> THEN {} ELSE {Head(s)} \cup SeqToSet(Tail(s))

(***************************************************************************)
(* Basic sets.                                                             *)
(***************************************************************************)
NULL == [null |-> TRUE]

BSet(eqs, ineqs) == [eq |-> eqs, ineq |-> ineqs, empty |-> FALSE, nored |-> FALSE]

\* isl_basic_set_set_to_empty / isl_basic_set_empty: the constraint lists are
\* cleared and the EMPTY flag is set
isl_basic_set_empty == [eq |-> <<>>, ineq |-> <<>>, empty |-> TRUE, nored |-> FALSE]

isl_basic_set_universe == BSet(<<>>, <<>>)

(***************************************************************************)
(* Collaborators of the kernel on one basic set (isl_map_simplify.c): the  *)
(* sets handled by the hull code are rational, so a row is normalised by   *)
(* the gcd of all its entries.                                             *)
(***************************************************************************)
NormRowBy(r, g) == IF g <= 1 THEN r ELSE isl_seq_scale_down(r, g)

NormRow(r) == NormRowBy(r, isl_seq_gcd(r))

RECURSIVE NormRows(_)
NormRows(rows) ==
    IF rows = <<>> THEN <<>>
    ELSE IF IsZeroSeq(Lin(Head(rows))) THEN NormRows(Tail(rows))
    ELSE <<NormRow(Head(rows))>> \o NormRows(Tail(rows))

isl_basic_set_normalize_constraints(b) ==
    IF b.empty THEN b
    ELSE IF \/ \E i \in DOMAIN b.eq : IsZeroSeq(Lin(b.eq[i])) /\ b.eq[i][1] # 0
            \/ \E i \in DOMAIN b.ineq : IsZeroSeq(Lin(b.ineq[i])) /\ b.ineq[i][1] < 0
         THEN isl_basic_set_empty
    ELSE [b EXCEPT !.eq = NormRows(b.eq), !.ineq = NormRows(b.ineq)]

ElimAll(rows, e, pos) == [i \in DOMAIN rows |-> isl_seq_elim(rows[i], e, pos)]

\* Gaussian elimination from the last variable to the first; v is the TLA+
\* index of the variable looked at
RECURSIVE GaussFrom(_, _, _, _)
GaussPivot(done, rest, ineqs, v, e) ==
    GaussFrom(Append(ElimAll(done, e, v), e), ElimAll(rest, e, v), ElimAll(ineqs, e, v), v - 1)

GaussRow(done, rest, ineqs, v, k) ==
    GaussPivot(done, RemoveAt(rest, k), ineqs, v,
               IF rest[k][v] < 0 THEN isl_seq_neg(rest[k]) ELSE rest[k])

GaussFrom(done, rest, ineqs, v) ==
    IF v < 2 \/ rest = <<>> THEN [done |-> done, rest |-> rest, ineq |-> ineqs]
    ELSE IF \A k \in DOMAIN rest : rest[k][v] = 0 THEN GaussFrom(done, rest, ineqs, v - 1)
    ELSE GaussRow(done, rest, ineqs, v,
                  CHOOSE k \in DOMAIN rest : rest[k][v] # 0 /\ \A j \in 1..(k - 1) : rest[j][v] = 0)

GaussResult(b, g) ==
    IF \E i \in DOMAIN g.rest : g.rest[i][1] # 0 THEN isl_basic_set_empty
    ELSE [b EXCEPT !.eq = g.done, !.ineq = g.ineq]

isl_basic_set_gauss(b) ==
    IF b.empty \/ b.eq = <<>> THEN b
    ELSE GaussResult(b, GaussFrom(<<>>, b.eq, b.ineq, Len(b.eq[1])))

\* of the inequalities with one linear part only the tightest is kept; two
\* opposite inequalities make the set empty or are an equality
DupKept(q) ==
    {i \in DOMAIN q : \A j \in DOMAIN q :
        (j # i /\ Lin(q[j]) = Lin(q[i])) =>
            (q[i][1] < q[j][1] \/ (q[i][1] = q[j][1] /\ i < j))}

RECURSIVE PickSeq(_, _, _)
PickSeq(q, keep, i) ==
    IF i > Len(q) THEN <<>>
    ELSE (IF i \in keep THEN <<q[i]>> ELSE <<>>) \o PickSeq(q, keep, i + 1)

\* the pairs of opposite inequalities of q
OppPairs(q) ==
    {p \in (DOMAIN q) \X (DOMAIN q) : p[1] < p[2] /\ Lin(q[p[1]]) = isl_seq_neg(Lin(q[p[2]]))}

PairSum(q, p) == q[p[1]][1] + q[p[2]][1]

EqFromPair(b, q, w) ==
    [b EXCEPT !.eq = Append(b.eq, q[w[1]]), !.ineq = PickSeq(q, DOMAIN q \ {w[1], w[2]}, 1)]

DupResult(b, q, opp) ==
    IF \E p \in opp : PairSum(q, p) < 0 THEN isl_basic_set_empty
    ELSE IF \E p \in opp : PairSum(q, p) = 0
         THEN EqFromPair(b, q, CHOOSE u \in opp :
                                  /\ PairSum(q, u) = 0
                                  /\ \A r \in opp : PairSum(q, r) = 0 => u[1] <= r[1])
    ELSE [b EXCEPT !.ineq = q]

DupPairs(b, q) == DupResult(b, q, OppPairs(q))

remove_duplicate_constraints(b) ==
    IF b.empty THEN b ELSE DupPairs(b, PickSeq(b.ineq, DupKept(b.ineq), 1))

RECURSIVE isl_basic_set_simplify(_)
SimplifyAgain(b, b1) == IF b1 = b THEN b ELSE isl_basic_set_simplify(b1)

isl_basic_set_simplify(b) ==
    SimplifyAgain(b, remove_duplicate_constraints(
                         isl_basic_set_normalize_constraints(
                             isl_basic_set_gauss(isl_basic_set_normalize_constraints(b)))))

isl_set_remove_empty_parts(S) == SelectSeq(S, LAMBDA b : ~b.empty)

(***************************************************************************)
(* convex_hull_1d: the hull of a one dimensional set.  lower and upper are *)
(* rows <<c0, c1>>, or <<>> for the C null pointer.                        *)
(***************************************************************************)
RECURSIVE Hull1DFirst(_, _, _)
Hull1DFirst(q, j, st) ==
    IF j > Len(q) THEN st
    ELSE IF q[j][2] > 0 THEN Hull1DFirst(q, j + 1, [st EXCEPT !.lower = q[j]])
    ELSE Hull1DFirst(q, j + 1, [st EXCEPT !.upper = q[j]])

Hull1DStart(p0) ==
    IF Len(p0.eq) > 0
    THEN IF p0.eq[1][2] > 0
         THEN [lower |-> p0.eq[1], upper |-> isl_seq_neg(p0.eq[1])]
         ELSE [lower |-> isl_seq_neg(p0.eq[1]), upper |-> p0.eq[1]]
    ELSE Hull1DFirst(p0.ineq, 1, [lower |-> <<>>, upper |-> <<>>])

Hull1DEq(st, e) ==
    LET lo == IF st.lower = <<>> THEN <<>>
              ELSE LET a == st.lower[1] * e[2]
                       b == st.lower[2] * e[1]
                   IN  IF a < b /\ e[2] > 0 THEN e
                       ELSE IF a > b /\ e[2] < 0 THEN isl_seq_neg(e)
                       ELSE st.lower
        up == IF st.upper = <<>> THEN <<>>
              ELSE LET a == st.upper[1] * e[2]
                       b == st.upper[2] * e[1]
                   IN  IF a < b /\ e[2] > 0 THEN isl_seq_neg(e)
                       ELSE IF a > b /\ e[2] < 0 THEN e
                       ELSE st.upper
    IN  [lower |-> lo, upper |-> up]

\* Hull1DIneq with the test of the upper bound turned round
Hull1DIneq_Mut(st, q) ==
    LET lo == IF st.lower # <<>> /\ q[2] > 0
              THEN LET a == st.lower[1] * q[2]
                       b == st.lower[2] * q[1]
                   IN  IF a < b THEN q ELSE st.lower
              ELSE st.lower
        up == IF st.upper # <<>> /\ q[2] < 0
              THEN LET a == st.upper[1] * q[2]
                       b == st.upper[2] * q[1]
                   IN  IF a < b THEN q ELSE st.upper
              ELSE st.upper
    IN  [lower |-> lo, upper |-> up]

Hull1DIneq(st, q) ==
    LET lo == IF st.lower # <<>> /\ q[2] > 0
              THEN LET a == st.lower[1] * q[2]
                       b == st.lower[2] * q[1]
                   IN  IF a < b THEN q ELSE st.lower
              ELSE st.lower
        up == IF st.upper # <<>> /\ q[2] < 0
              THEN LET a == st.upper[1] * q[2]
                       b == st.upper[2] * q[1]
                   IN  IF a > b THEN q ELSE st.upper
              ELSE st.upper
    IN  [lower |-> lo, upper |-> up]

RECURSIVE Hull1DRows(_, _, _, _)
Hull1DRows(st, rows, j, isEq) ==
    IF j > Len(rows) THEN st
    ELSE Hull1DRows(IF isEq THEN Hull1DEq(st, rows[j]) ELSE Hull1DIneq(st, rows[j]),
                    rows, j + 1, isEq)

Hull1DMember(st, bset) ==
    LET has_lower == Len(bset.eq) > 0 \/ \E j \in DOMAIN bset.ineq : bset.ineq[j][2] > 0
        has_upper == Len(bset.eq) > 0 \/ \E j \in DOMAIN bset.ineq : bset.ineq[j][2] < 0
        st1 == Hull1DRows(Hull1DRows(st, bset.eq, 1, TRUE), bset.ineq, 1, FALSE)
    IN  [lower |-> IF has_lower THEN st1.lower ELSE <<>>,
         upper |-> IF has_upper THEN st1.upper ELSE <<>>]

RECURSIVE Hull1DLoop(_, _, _)
Hull1DLoop(st, S, i) ==
    IF i > Len(S) THEN st ELSE Hull1DLoop(Hull1DMember(st, S[i]), S, i + 1)

Hull1DResult(st) ==
    BSet(<<>>, (IF st.lower # <<>> THEN <<st.lower>> ELSE <<>>)
               \o (IF st.upper # <<>> THEN <<st.upper>> ELSE <<>>))

Hull1DSimplified(S) ==
    IF Len(S) = 0 THEN NULL
    ELSE IF Len(S[1].eq) > 1 THEN NULL
    ELSE Hull1DResult(Hull1DLoop(Hull1DStart(S[1]), S, 1))

convex_hull_1d(S0) ==
    Hull1DSimplified(
        isl_set_remove_empty_parts([i \in DOMAIN S0 |-> isl_basic_set_simplify(S0[i])]))

(***************************************************************************)
(* Rationals n/d with d > 0, as pairs <<n, d>>.                            *)
(***************************************************************************)
RatLE(p, q) == p[1] * q[2] <= q[1] * p[2]

RatLT(p, q) == p[1] * q[2] < q[1] * p[2]

RatEq(p, q) == p[1] * q[2] = q[1] * p[2]

(***************************************************************************)
(* Hull1D on its own: the one dimensional unions of non-empty intervals,   *)
(* each given by at most one lower bound, one upper bound or one equality. *)
(***************************************************************************)
MaxMembers1D == 2

Coefs1D == 1..2

Consts1D == -1..1

LowerRows1D == {<<c, a>> : c \in Consts1D, a \in Coefs1D}

UpperRows1D == {<<c, -a>> : c \in Consts1D, a \in Coefs1D}

EqRows1D == LowerRows1D \cup UpperRows1D

\* the end of the half line a row bounds: x >= -c/a (a > 0), x <= c/(-a) (a < 0)
RowEnd(r) == IF r[2] > 0 THEN <<-r[1], r[2]>> ELSE <<r[1], -r[2]>>

Pairs1D == {p \in LowerRows1D \X UpperRows1D : RatLE(RowEnd(p[1]), RowEnd(p[2]))}

Members1D ==
    {BSet(<<>>, <<>>)}
    \cup {BSet(<<>>, <<r>>) : r \in LowerRows1D \cup UpperRows1D}
    \cup {BSet(<<e>>, <<>>) : e \in EqRows1D}
    \cup {BSet(<<>>, <<p[1], p[2]>>) : p \in Pairs1D}
    \cup {BSet(<<>>, <<p[2], p[1]>>) : p \in Pairs1D}
    \cup {BSet(<<>>, <<<<0, 1>>, <<2, -1>>>>), BSet(<<>>, <<<<-3, 1>>, <<5, -1>>>>)}

SeqsUpTo(M, n) == UNION {[1..k -> M] : k \in 1..n}

Inputs1D == SeqsUpTo(Members1D, MaxMembers1D)

Init1D == pc = "start" /\ set \in Inputs1D /\ hull = NULL /\ aux = <<>>

Hull1D ==
    /\ pc = "start"
    /\ hull' = convex_hull_1d(set)
    /\ pc' = "done"
    /\ UNCHANGED <<set, aux>>

Next1D == Hull1D

SpecHull1D == Init1D /\ [][Next1D]_vars

\* what the members of the input say: the ends of a member
HasLower1D(b) == b.eq # <<>> \/ \E j \in DOMAIN b.ineq : b.ineq[j][2] > 0

HasUpper1D(b) == b.eq # <<>> \/ \E j \in DOMAIN b.ineq : b.ineq[j][2] < 0

LowerEnd1D(b) ==
    IF b.eq # <<>> THEN RowEnd(b.eq[1])
    ELSE RowEnd(b.ineq[CHOOSE j \in DOMAIN b.ineq : b.ineq[j][2] > 0])

UpperEnd1D(b) ==
    IF b.eq # <<>> THEN RowEnd(b.eq[1])
    ELSE RowEnd(b.ineq[CHOOSE j \in DOMAIN b.ineq : b.ineq[j][2] < 0])

LowerRowsOf(h) == {j \in DOMAIN h.ineq : h.ineq[j][2] > 0}

UpperRowsOf(h) == {j \in DOMAIN h.ineq : h.ineq[j][2] < 0}

\* C4: Hull1D returns the interval from the least lower end to the greatest
\* upper end of the members; a bound is absent iff some member lacks it
C4_Hull1DInterval ==
    pc = "done" =>
        /\ hull # NULL
        /\ hull.eq = <<>>
        /\ \A j \in DOMAIN hull.ineq : hull.ineq[j][2] # 0
        /\ Cardinality(LowerRowsOf(hull)) = (IF \A i \in DOMAIN set : HasLower1D(set[i]) THEN 1 ELSE 0)
        /\ Cardinality(UpperRowsOf(hull)) = (IF \A i \in DOMAIN set : HasUpper1D(set[i]) THEN 1 ELSE 0)
        /\ \A j \in LowerRowsOf(hull) :
              /\ \A i \in DOMAIN set : RatLE(RowEnd(hull.ineq[j]), LowerEnd1D(set[i]))
              /\ \E i \in DOMAIN set : RatEq(RowEnd(hull.ineq[j]), LowerEnd1D(set[i]))
        /\ \A j \in UpperRowsOf(hull) :
              /\ \A i \in DOMAIN set : RatLE(UpperEnd1D(set[i]), RowEnd(hull.ineq[j]))
              /\ \E i \in DOMAIN set : RatEq(UpperEnd1D(set[i]), RowEnd(hull.ineq[j]))

\* the union [0,2] u [3,5] has been given the hull [0,5]
C4_Witness ==
    /\ pc = "done"
    /\ set = <<BSet(<<>>, <<<<0, 1>>, <<2, -1>>>>), BSet(<<>>, <<<<-3, 1>>, <<5, -1>>>>)>>
    /\ hull = BSet(<<>>, <<<<0, 1>>, <<5, -1>>>>)

(***************************************************************************)
(* The exact linear programming collaborator (isl_solve_lp, isl_tab_min)   *)
(* for sets of dimension at most two.  Rows are padded to <<c0, c1, c2>>;  *)
(* a point is <<X, Y, D>> with D > 0, standing for (X/D, Y/D).             *)
(***************************************************************************)
Pad(r) == [i \in 1..3 |-> IF i <= Len(r) THEN r[i] ELSE 0]

Cons(b) ==
    {Pad(b.ineq[i]) : i \in DOMAIN b.ineq}
    \cup {Pad(b.eq[i]) : i \in DOMAIN b.eq}
    \cup {isl_seq_neg(Pad(b.eq[i])) : i \in DOMAIN b.eq}

Det(g, h) == g[2] * h[3] - g[3] * h[2]

Dot(g, r) == g[2] * r[1] + g[3] * r[2]

PointBy(x, y, d, g) == <<x \div g, y \div g, d \div g>>

NormPoint(x, y, d) == PointBy(x, y, d, IF d < 0 THEN -Gcd(Gcd(x, y), d) ELSE Gcd(Gcd(x, y), d))

\* the point where the lines g = 0 and h = 0 meet (Det(g, h) # 0)
Meet(g, h) == NormPoint(g[3] * h[1] - g[1] * h[3], g[1] * h[2] - g[2] * h[1], Det(g, h))

\* the numerator of the value of f at p (the denominator is p[3] > 0)
EvalNum(f, p) == f[1] * p[3] + f[2] * p[1] + f[3] * p[2]

RatBy(n, d, g) == IF g = 0 THEN <<0, 1>> ELSE <<n \div g, d \div g>>

NormRat(n, d) == RatBy(n, d, Gcd(n, d))

ValueAt(f, p) == NormRat(EvalNum(f, p), p[3])

Sat(C, p) == \A g \in C : EvalNum(g, p) >= 0

Vertices(C) ==
    {p \in {Meet(w[1], w[2]) : w \in {w \in C \X C : Det(w[1], w[2]) # 0}} : Sat(C, p)}

Rays(N) == {<<g[3], -g[2]>> : g \in N} \cup {<<-g[3], g[2]>> : g \in N}

RatMin(Q) == CHOOSE p \in Q : \A q \in Q : RatLE(p, q)

RatMax(Q) == CHOOSE p \in Q : \A q \in Q : RatLE(q, p)

LPOk(v) == [res |-> "ok", n |-> v[1], d |-> v[2]]

LPUnbounded == [res |-> "unbounded", n |-> 0, d |-> 1]

LPEmpty == [res |-> "empty", n |-> 0, d |-> 1]

\* g = Mul(g, n0) * n0 in the linear part
Mul(g, n0) == IF n0[1] # 0 THEN g[2] \div n0[1] ELSE g[3] \div n0[2]

LPAt(f0, mu, t) == LPOk(NormRat(f0 * t[2] + mu * t[1], t[2]))

LPAlong(lows, ups, f0, mu) ==
    IF mu = 0 THEN LPOk(<<f0, 1>>)
    ELSE IF (mu > 0 /\ lows = {}) \/ (mu < 0 /\ ups = {}) THEN LPUnbounded
    ELSE LPAt(f0, mu, IF mu > 0 THEN RatMax(lows) ELSE RatMin(ups))

LPInterval(lows, ups, f, n0) ==
    IF \E l \in lows, u \in ups : RatLT(u, l) THEN LPEmpty
    ELSE IF f[2] * n0[2] - f[3] * n0[1] # 0 THEN LPUnbounded
    ELSE LPAlong(lows, ups, f[1], Mul(f, n0))

\* all normals of N are multiples of n0: a problem in t = n0 . x
LPParallel(N, f, n0) ==
    LPInterval({NormRat(-g[1], Mul(g, n0)) : g \in {g \in N : Mul(g, n0) > 0}},
               {NormRat(g[1], -Mul(g, n0)) : g \in {g \in N : Mul(g, n0) < 0}}, f, n0)

LPPointed(V, N, f) ==
    IF V = {} THEN LPEmpty
    ELSE IF \E r \in Rays(N) : (\A g \in N : Dot(g, r) >= 0) /\ Dot(f, r) < 0 THEN LPUnbounded
    ELSE LPOk(RatMin({ValueAt(f, p) : p \in V}))

LPNormals(N, f) ==
    IF N = {} THEN (IF f[2] = 0 /\ f[3] = 0 THEN LPOk(<<f[1], 1>>) ELSE LPUnbounded)
    ELSE IF \A g \in N, h \in N : Det(g, h) = 0
         THEN LPParallel(N, f, NormRow(Lin(CHOOSE g \in N : TRUE)))
    ELSE LPPointed(Vertices(N), N, f)

LPCons(C, f) ==
    IF \E g \in C : g[2] = 0 /\ g[3] = 0 /\ g[1] < 0 THEN LPEmpty
    ELSE LPNormals({g \in C : g[2] # 0 \/ g[3] # 0}, f)

\* the minimum of the affine form obj over the basic set b
isl_solve_lp(b, obj) == IF b.empty THEN LPEmpty ELSE LPCons(Cons(b), Pad(obj))

LPNonNeg(r) == r.res = "empty" \/ (r.res = "ok" /\ r.n >= 0)

\* what the sets are: b holds no point; every point of b satisfies row >= 0
IsEmptyBSet(b) == isl_solve_lp(b, <<0>>).res = "empty"

HoldsOn(row, b) == LPNonNeg(isl_solve_lp(b, row))

VanishesOn(row, b) == \A r \in {row, isl_seq_neg(row)} : HoldsOn(r, b)

RowsOf(h) == SeqToSet(h.ineq) \cup SeqToSet(h.eq) \cup {isl_seq_neg(h.eq[i]) : i \in DOMAIN h.eq}

\* every point of b is a point of h (h not NULL)
SubsetOf(b, h) == IF h.empty THEN IsEmptyBSet(b) ELSE \A r \in RowsOf(h) : HoldsOn(r, b)

SamePoints(b, h) == \A w \in {<<b, h>>, <<h, b>>} : SubsetOf(w[1], w[2])

(***************************************************************************)
(* SingleHull: isl_basic_map_convex_hull.  The tableau collaborators       *)
(* (detect_equalities, detect_redundant, update_from_tab) are given by     *)
(* what they establish: an infeasible set is flagged empty, an inequality  *)
(* that vanishes on the whole set becomes an equality, and an inequality   *)
(* implied by the others is dropped.                                       *)
(***************************************************************************)
ImplicitEqs(b) == {i \in DOMAIN b.ineq : VanishesOn(b.ineq[i], b)}

MoveToEq(b, I) ==
    IF I = {} THEN b
    ELSE isl_basic_set_gauss([b EXCEPT !.eq = b.eq \o PickSeq(b.ineq, I, 1),
                                       !.ineq = PickSeq(b.ineq, DOMAIN b.ineq \ I, 1)])

isl_tab_detect_equalities(b) == MoveToEq(b, ImplicitEqs(b))

RECURSIVE isl_tab_detect_redundant(_, _)
DropIfRedundant(b, i, rest) ==
    isl_tab_detect_redundant(IF HoldsOn(b.ineq[i], rest) THEN rest ELSE b, i - 1)

isl_tab_detect_redundant(b, i) ==
    IF i < 1 THEN b ELSE DropIfRedundant(b, i, [b EXCEPT !.ineq = RemoveAt(b.ineq, i)])

NoRedundant(b) == [b EXCEPT !.nored = TRUE]

DetectRedundantAll(b) == isl_tab_detect_redundant(b, Len(b.ineq))

isl_basic_map_update_from_tab(b) ==
    IF IsEmptyBSet(b) THEN NoRedundant(isl_basic_set_empty)
    ELSE NoRedundant(DetectRedundantAll(isl_tab_detect_equalities(b)))

SingleHullGaussed(b) ==
    IF b.empty THEN b
    ELSE IF b.nored THEN b
    ELSE IF Len(b.ineq) <= 1 THEN b
    ELSE isl_basic_map_update_from_tab(b)

isl_basic_map_convex_hull(bmap) ==
    IF bmap = NULL THEN NULL ELSE SingleHullGaussed(isl_basic_set_gauss(bmap))

isl_basic_set_convex_hull(bset) == isl_basic_map_convex_hull(bset)

(***************************************************************************)
(* The affine hull collaborator (isl_set_affine_hull): the smallest affine *)
(* subspace holding every member.  A subspace of the (padded) plane is     *)
(* "empty", a point, a line (its row, made canonical) or the plane.        *)
(***************************************************************************)
CanonSign(r, k) == IF k >= 0 /\ r[k + 2] < 0 THEN isl_seq_neg(r) ELSE r

CanonRow(r) == CanonSign(r, LastNonZero(Lin(r)))

CanonLine(g) == CanonRow(NormRow(g))

AffPoint(w) == [kind |-> "point", p |-> Meet(w[1], w[2])]

AffFromEqs(E) ==
    IF \E g \in E, h \in E : Det(g, h) # 0
    THEN AffPoint(CHOOSE w \in E \X E : Det(w[1], w[2]) # 0)
    ELSE IF E # {} THEN [kind |-> "line", row |-> CanonLine(CHOOSE g \in E : TRUE)]
    ELSE [kind |-> "plane"]

AffOf(b) ==
    IF IsEmptyBSet(b) THEN [kind |-> "empty"]
    ELSE AffFromEqs({g \in Cons(b) : (g[2] # 0 \/ g[3] # 0) /\ VanishesOn(g, b)})

LineDir(p, dx, dy) == CanonLine(<<-(dy * p[1] - dx * p[2]), dy * p[3], -dx * p[3]>>)

LineThrough(p, q) == LineDir(p, q[1] * p[3] - p[1] * q[3], q[2] * p[3] - p[2] * q[3])

\* JoinAff that keeps the subspace of the first member that holds a point
JoinAff_Mut(A, B) == IF A.kind = "empty" THEN B ELSE A

JoinAff(A, B) ==
    IF A.kind = "empty" THEN B
    ELSE IF B.kind = "empty" THEN A
    ELSE IF A.kind = "plane" \/ B.kind = "plane" THEN [kind |-> "plane"]
    ELSE IF A.kind = "point" /\ B.kind = "point"
         THEN IF A.p = B.p THEN A ELSE [kind |-> "line", row |-> LineThrough(A.p, B.p)]
    ELSE IF A.kind = "point"
         THEN IF EvalNum(B.row, A.p) = 0 THEN B ELSE [kind |-> "plane"]
    ELSE IF B.kind = "point"
         THEN IF EvalNum(A.row, B.p) = 0 THEN A ELSE [kind |-> "plane"]
    ELSE IF A.row = B.row THEN A ELSE [kind |-> "plane"]

RECURSIVE AffOfSet(_, _)
AffOfSet(S, i) == IF i > Len(S) THEN [kind |-> "empty"] ELSE JoinAff(AffOf(S[i]), AffOfSet(S, i + 1))

Truncate(r, dim) == SubSeq(r, 1, 1 + dim)

\* the subspace as a basic set of dimension dim, its equalities in echelon form
AffToBSet(A, dim) ==
    IF A.kind = "empty" THEN isl_basic_set_empty
    ELSE IF A.kind = "plane" THEN isl_basic_set_universe
    ELSE IF A.kind = "line" THEN BSet(<<Truncate(A.row, dim)>>, <<>>)
    ELSE BSet(<<NormRow(<<-A.p[2], 0, A.p[3]>>), NormRow(<<-A.p[1], A.p[3], 0>>)>>, <<>>)

isl_basic_set_affine_hull(b, dim) == AffToBSet(AffOf(b), dim)

isl_set_affine_hull(S, dim) == AffToBSet(AffOfSet(S, 1), dim)

(***************************************************************************)
(* SimpleHull: isl_map_simple_hull, uset_simple_hull, add_bounds and       *)
(* add_bound, one step per loop iteration.                                 *)
(*                                                                         *)
(* A hash table maps the hash of a linear part to a reference to the row   *)
(* it was entered for (C: a pointer into the rows of the basic set).  The  *)
(* hash is taken to be free of collisions.  aux holds the struct sh_data   *)
(* and the loop counters: i the member whose constraints are candidates,   *)
(* c the number of its candidates already handled, j the member the        *)
(* candidate is checked against, orig the candidate as it was copied, and  *)
(* freed whether the storage of hull has been released.                    *)
(***************************************************************************)
isl_seq_hash(lin) == lin

EqRef(i) == [eq |-> TRUE, idx |-> i]

IneqRef(i) == [eq |-> FALSE, idx |-> i]

Content(b, ref) == IF ref.eq THEN b.eq[ref.idx] ELSE b.ineq[ref.idx]

has_ineq(row, v) == isl_seq_eq(Lin(row), Lin(v)) \/ isl_seq_is_neg(Lin(row), Lin(v))

\* isl_hash_table_find without reserve
TableFind(table, b, v) ==
    /\ isl_seq_hash(Lin(v)) \in DOMAIN table
    /\ has_ineq(Content(b, table[isl_seq_hash(Lin(v))]), v)

\* find with reserve, entry->data = ineq
hash_ineq(table, b, ref) == (isl_seq_hash(Lin(Content(b, ref))) :> ref) @@ table

RECURSIVE HashEqs(_, _, _)
HashEqs(table, b, i) ==
    IF i > Len(b.eq) THEN table
    ELSE LET b1 == [b EXCEPT !.eq[i] = isl_seq_neg(@)]
             t1 == hash_ineq(table, b1, EqRef(i))
             b2 == [b1 EXCEPT !.eq[i] = isl_seq_neg(@)]
             t2 == hash_ineq(t1, b2, EqRef(i))
         IN  HashEqs(t2, b2, i + 1)

RECURSIVE HashIneqs(_, _, _)
HashIneqs(table, b, i) ==
    IF i > Len(b.ineq) THEN table
    ELSE HashIneqs(hash_ineq(table, b, IneqRef(i)), b, i + 1)

hash_basic_set(table, bset) == HashIneqs(HashEqs(table, bset, 1), bset, 1)

\* BothSigns that negates each equality once
BothSigns_Mut(b) == [b EXCEPT !.eq = [i \in DOMAIN @ |-> isl_seq_neg(@[i])]]

\* the member after a loop that negates each equality in place twice, once
\* before each of its two uses (hash_basic_set, common_constraints)
BothSigns(b) == [b EXCEPT !.eq = [i \in DOMAIN @ |-> isl_seq_neg(isl_seq_neg(@[i]))]]

\* the constant of a stored row is negated in place when neg holds
NegConstant(b, ref, neg) ==
    IF ~neg THEN b
    ELSE IF ref.eq THEN [b EXCEPT !.eq[ref.idx][1] = -@]
    ELSE [b EXCEPT !.ineq[ref.idx][1] = -@]

sh_data_alloc(S) == [m \in DOMAIN S |-> hash_basic_set(<<>>, S[m])]

CeilDiv(n, d) == -((-n) \div d)

RoundUp(r) == [res |-> r.res, opt |-> IF r.res = "ok" THEN CeilDiv(r.n, r.d) ELSE 0]

\* isl_tab_min without opt_denom: the optimum is rounded up
isl_tab_min(b, f) == RoundUp(isl_solve_lp(b, f))

\* IsBoundResult with the sign of the correction turned round
IsBoundResult_Mut(r, ineq) ==
    [ret |-> IF r.res = "ok" THEN 1 ELSE IF r.res = "unbounded" THEN 0 ELSE -1,
     ineq |-> IF r.res = "ok" /\ r.opt < 0 THEN [ineq EXCEPT ![1] = @ + r.opt] ELSE ineq]

\* the constant of ineq is raised by a negative optimum
IsBoundResult(r, ineq) ==
    [ret |-> IF r.res = "ok" THEN 1 ELSE IF r.res = "unbounded" THEN 0 ELSE -1,
     ineq |-> IF r.res = "ok" /\ r.opt < 0 THEN [ineq EXCEPT ![1] = @ - r.opt] ELSE ineq]

is_bound(S, j, ineq) == IsBoundResult(isl_tab_min(S[j], ineq), ineq)

NumCands(b) == 2 * Len(b.eq) + Len(b.ineq)

Last(q) == q[Len(q)]

DropLast(q) == SubSeq(q, 1, Len(q) - 1)

SetLast(q, r) == [q EXCEPT ![Len(q)] = r]

SHIdle(dim) ==
    [dim |-> dim, i |-> 0, c |-> 0, j |-> 0, table |-> <<>>, hull_table |-> <<>>,
     tabs |-> {}, freed |-> FALSE, orig |-> <<>>]

\* isl_map_simple_hull up to the first call of add_bounds
simple_hull_begin ==
    /\ pc = "start"
    /\ IF Len(set) = 0
       THEN /\ hull' = isl_basic_set_empty
            /\ pc' = "done"
            /\ UNCHANGED aux
       ELSE IF Len(set) = 1
       THEN /\ hull' = set[1]
            /\ pc' = "done"
            /\ UNCHANGED aux
       ELSE LET H == isl_set_affine_hull(set, aux.dim)
            IN  /\ hull' = H
                /\ aux' = [aux EXCEPT !.i = 1, !.c = 0, !.table = sh_data_alloc(set),
                                      !.hull_table = hash_basic_set(<<>>, H)]
                /\ pc' = "pick"
    /\ set' = IF Len(set) >= 2 THEN [m \in DOMAIN set |-> BothSigns(set[m])] ELSE set

\* add_bounds takes the next candidate of member i (an equality is negated in
\* place before each of its two uses) and add_bound looks it up in the table
\* of the hull and in the tables of the previous members
add_bound_begin ==
    /\ pc = "pick"
    /\ aux.i <= Len(set)
    /\ aux.c < NumCands(set[aux.i])
    /\ LET i == aux.i
           n_eq == Len(set[i].eq)
           isEq == aux.c < 2 * n_eq
           e == (aux.c \div 2) + 1
           set1 == IF isEq THEN [set EXCEPT ![i].eq[e] = isl_seq_neg(@)] ELSE set
           ineq == IF isEq THEN set1[i].eq[e] ELSE set[i].ineq[aux.c - 2 * n_eq + 1]
       IN  /\ set' = set1
           /\ IF \/ TableFind(aux.hull_table, hull, ineq)
                 \/ \E j \in 1..(i - 1) : TableFind(aux.table[j], set1[j], ineq)
              THEN /\ hull' = hull
                   /\ aux' = [aux EXCEPT !.c = @ + 1]
                   /\ pc' = "pick"
              ELSE /\ hull' = [hull EXCEPT !.ineq = Append(@, ineq)]
                   /\ aux' = [aux EXCEPT !.j = 1, !.orig = ineq]
                   /\ pc' = "prev"

\* the outcome of one call of is_bound on the candidate (the last row of hull)
AfterIsBound(r, j) ==
    IF r.ret < 0
    THEN /\ hull' = hull
         /\ aux' = [aux EXCEPT !.freed = TRUE, !.c = @ + 1, !.tabs = @ \cup {j}]
         /\ pc' = "pick"
    ELSE IF r.ret = 0
    THEN /\ hull' = [hull EXCEPT !.ineq = DropLast(@)]
         /\ aux' = [aux EXCEPT !.c = @ + 1, !.tabs = @ \cup {j}]
         /\ pc' = "pick"
    ELSE /\ hull' = [hull EXCEPT !.ineq = SetLast(@, r.ineq)]
         /\ aux' = [aux EXCEPT !.j = j + 1, !.tabs = @ \cup {j}]
         /\ UNCHANGED pc

\* add_bound, the loop over the previous members
add_bound_prev ==
    /\ pc = "prev"
    /\ IF aux.j < aux.i
       THEN AfterIsBound(is_bound(set, aux.j, Last(hull.ineq)), aux.j)
       ELSE /\ pc' = "next"
            /\ aux' = [aux EXCEPT !.j = aux.i + 1]
            /\ UNCHANGED hull
    /\ UNCHANGED set

\* add_bound, the loop over the following members and the entry of the
\* accepted candidate into the table of the hull
add_bound_next ==
    /\ pc = "next"
    /\ LET j == aux.j
           k == Len(hull.ineq)
       IN  IF j <= Len(set)
           THEN IF TableFind(aux.table[j], set[j], hull.ineq[k])
                THEN LET ref == aux.table[j][isl_seq_hash(Lin(hull.ineq[k]))]
                         neg == isl_seq_is_neg(Lin(Content(set[j], ref)), Lin(hull.ineq[k]))
                         b_j == NegConstant(set[j], ref, neg)
                         c_j == Content(b_j, ref)[1]
                     IN  /\ hull' = IF c_j > hull.ineq[k][1]
                                    THEN [hull EXCEPT !.ineq[k][1] = c_j] ELSE hull
                         /\ set' = [set EXCEPT ![j] = NegConstant(b_j, ref, neg)]
                         /\ aux' = [aux EXCEPT !.j = j + 1]
                         /\ UNCHANGED pc
                ELSE AfterIsBound(is_bound(set, j, hull.ineq[k]), j) /\ UNCHANGED set
           ELSE /\ aux' = [aux EXCEPT !.hull_table = hash_ineq(@, hull, IneqRef(k)), !.c = @ + 1]
                /\ pc' = "pick"
                /\ UNCHANGED <<hull, set>>

\* add_bounds returns; its caller goes to the next member
add_bounds_end ==
    /\ pc = "pick"
    /\ aux.i <= Len(set)
    /\ aux.c = NumCands(set[aux.i])
    /\ aux' = [aux EXCEPT !.i = @ + 1, !.c = 0]
    /\ UNCHANGED <<pc, set, hull>>

\* uset_simple_hull after the last member
simple_hull_end ==
    /\ pc = "pick"
    /\ aux.i > Len(set)
    /\ hull' = isl_basic_set_convex_hull(hull)
    /\ pc' = "done"
    /\ UNCHANGED <<set, aux>>

\* add_bound has released hull and add_bounds went on with it: the next use
\* of the released storage either works on the old contents (the steps
\* above) or ends the program
simple_hull_abort ==
    /\ pc = "pick"
    /\ aux.freed
    /\ pc' = "crash"
    /\ UNCHANGED <<set, hull, aux>>

NextSimpleHull ==
    \/ simple_hull_begin
    \/ add_bound_begin
    \/ add_bound_prev
    \/ add_bound_next
    \/ add_bounds_end
    \/ simple_hull_end
    \/ simple_hull_abort

(***************************************************************************)
(* The unions SimpleHull is run on: members of the plane with integer      *)
(* vertices, among them unbounded ones, ones with equalities in either     *)
(* sign, a point and the member flagged empty.                             *)
(***************************************************************************)
MaxMembersSH == 3

BoxSH(x0, x1, y0, y1) == BSet(<<>>, <<<<-x0, 1, 0>>, <<x1, -1, 0>>, <<-y0, 0, 1>>, <<y1, 0, -1>>>>)

MembersSH ==
    {BoxSH(0, 1, 0, 1), BoxSH(2, 3, 0, 2),
     BSet(<<>>, <<<<0, 1, 0>>, <<0, 0, 1>>, <<2, -1, -1>>>>),
     BSet(<<<<-1, 0, 1>>>>, <<<<0, 1, 0>>, <<2, -1, 0>>>>),
     BSet(<<<<2, 0, -1>>>>, <<<<-1, 1, 0>>, <<3, -1, 0>>>>),
     BSet(<<<<0, -1, 1>>>>, <<<<0, 1, 1>>, <<4, -1, -1>>>>),
     BSet(<<<<-2, 0, 1>>, <<-1, 1, 0>>>>, <<>>),
     BSet(<<>>, <<<<0, 1, 0>>>>),
     BSet(<<>>, <<<<-1, 1, 0>>, <<-1, 0, 1>>>>),
     BSet(<<>>, <<<<3, -1, 0>>, <<0, 0, 1>>, <<2, 0, -1>>>>),
     isl_basic_set_empty}

InputsSH == SeqsUpTo(MembersSH, MaxMembersSH)

InitSimpleHull == pc = "start" /\ set \in InputsSH /\ hull = NULL /\ aux = SHIdle(2)

SpecSimpleHull == InitSimpleHull /\ [][NextSimpleHull]_vars

\* the constraints of the members as add_bounds hands them to add_bound
CandidateRows(S) ==
    UNION {SeqToSet(S[m].ineq) \cup SeqToSet(S[m].eq)
           \cup {isl_seq_neg(S[m].eq[e]) : e \in DOMAIN S[m].eq} : m \in DOMAIN S}

\* C2: every inequality SimpleHull leaves in H holds on every member of S
C2_SimpleHullSound ==
    (Len(set) >= 2 /\ (pc = "done" \/ (pc = "pick" /\ ~aux.freed))) =>
        \A k \in DOMAIN hull.ineq : \A m \in DOMAIN set : HoldsOn(hull.ineq[k], set[m])

\* C3: a row add_bound puts into H is a copy of a constraint of a member
\* (an equality in either sign); until it is accepted only its constant
\* changes, and the constant never decreases
C3_OnlyConstantRaised ==
    [][(pc \in {"pick", "prev", "next"} /\ pc' \in {"pick", "prev", "next"}) =>
          \A k \in DOMAIN hull'.ineq :
              IF k \in DOMAIN hull.ineq
              THEN /\ Lin(hull'.ineq[k]) = Lin(hull.ineq[k])
                   /\ hull'.ineq[k][1] >= hull.ineq[k][1]
              ELSE hull'.ineq[k] \in CandidateRows(set')]_vars

\* an accepted row whose constant was raised above that of the candidate
C3_Witness ==
    /\ pc = "pick"
    /\ aux.orig # <<>>
    /\ \E k \in DOMAIN hull.ineq :
          /\ Lin(hull.ineq[k]) = Lin(aux.orig)
          /\ hull.ineq[k][1] > aux.orig[1]
          /\ isl_seq_hash(Lin(aux.orig)) \in DOMAIN aux.hull_table

(***************************************************************************)
(* Collaborators of the dispatcher on whole sets (isl_map.c): constraints  *)
(* and members are put in a fixed order so that equal members are found.   *)
(***************************************************************************)
RowLess(p, q) == \E i \in DOMAIN p : p[i] < q[i] /\ \A j \in 1..(i - 1) : p[j] = q[j]

RECURSIVE SortRows(_)
SortRowsFrom(R, r) == <<r>> \o SortRows(R \ {r})

SortRows(R) ==
    IF R = {} THEN <<>>
    ELSE SortRowsFrom(R, CHOOSE r \in R : \A q \in R : q = r \/ RowLess(r, q))

isl_basic_set_sort_constraints(b) == [b EXCEPT !.ineq = SortRows(SeqToSet(@))]

\* isl_basic_map_normalize: SingleHull, then the constraints in order
isl_basic_set_normalize(b) == isl_basic_set_sort_constraints(isl_basic_set_convex_hull(b))

RECURSIVE Flat(_)
Flat(rows) == IF rows = <<>> THEN <<>> ELSE Head(rows) \o Flat(Tail(rows))

BSetKey(b) == <<Len(b.eq), Len(b.ineq)>> \o Flat(b.eq) \o Flat(b.ineq)

KeyLess(p, q) == Len(p) < Len(q) \/ (Len(p) = Len(q) /\ RowLess(p, q))

RECURSIVE SortMembers(_)
SortMembersFrom(M, b) == <<b>> \o SortMembers({q \in M : BSetKey(q) # BSetKey(b)})

SortMembers(M) ==
    IF M = {} THEN <<>>
    ELSE SortMembersFrom(M, CHOOSE b \in M : \A q \in M : ~KeyLess(BSetKey(q), BSetKey(b)))

\* isl_set_normalize: every member normalised, the empty ones dropped, the
\* rest sorted and of equal members one kept
isl_set_normalize(S) ==
    SortMembers({b \in {isl_basic_set_normalize(S[i]) : i \in DOMAIN S} : ~b.empty})

isl_set_is_empty(S) == \A i \in DOMAIN S : IsEmptyBSet(S[i])

\* the last member takes the place of the dropped one
isl_set_drop_basic_set(S, i) ==
    IF i = Len(S) THEN DropLast(S) ELSE DropLast([S EXCEPT ![i] = S[Len(S)]])

\* isl_basic_set_intersect that leaves the second operand out
isl_basic_set_intersect_Mut(b1, b2) ==
    IF b1 = NULL THEN NULL
    ELSE IF b1.empty \/ b2.empty THEN isl_basic_set_empty
    ELSE isl_basic_set_simplify(b1)

isl_basic_set_intersect(b1, b2) ==
    IF b1 = NULL THEN NULL
    ELSE IF b1.empty \/ b2.empty THEN isl_basic_set_empty
    ELSE isl_basic_set_simplify(BSet(b1.eq \o b2.eq, b1.ineq \o b2.ineq))

(***************************************************************************)
(* isl_set_is_bounded: a member is bounded iff its recession cone, the     *)
(* constraints without their constants, holds the origin only.             *)
(***************************************************************************)
ZeroConst(rows) == [i \in DOMAIN rows |-> [rows[i] EXCEPT ![1] = 0]]

isl_tab_from_recession_cone(b) == BSet(ZeroConst(b.eq), ZeroConst(b.ineq))

UnitDirs(dim) ==
    {[i \in 1..(1 + dim) |-> IF i = k THEN s ELSE 0] : k \in 2..(1 + dim), s \in {-1, 1}}

isl_tab_cone_is_bounded(cone, dim) == \A f \in UnitDirs(dim) : isl_solve_lp(cone, f).res = "ok"

isl_basic_set_is_bounded(b, dim) == isl_tab_cone_is_bounded(isl_tab_from_recession_cone(b), dim)

isl_set_is_bounded(S, dim) == \A i \in DOMAIN S : isl_basic_set_is_bounded(S[i], dim)

(***************************************************************************)
(* convex_hull_0d and the Fourier-Motzkin hull: convex_hull_pair and       *)
(* uset_convex_hull_elim.  isl_basic_set_remove_dims eliminates the        *)
(* variables from the last to the first, with an equality where one        *)
(* mentions the variable and by combining the inequalities of opposite     *)
(* sign otherwise, and then drops their columns.                           *)
(***************************************************************************)
convex_hull_0d(S) == IF isl_set_is_empty(S) THEN isl_basic_set_empty ELSE isl_basic_set_universe

FMCombine(p, n, v) == NormRow(isl_seq_combine(-n[v], p, p[v], n))

FMIneqs(q, v) ==
    PickSeq(q, {i \in DOMAIN q : q[i][v] = 0}, 1)
    \o SortRows({FMCombine(q[w[1]], q[w[2]], v) :
                    w \in {w \in (DOMAIN q) \X (DOMAIN q) : q[w[1]][v] > 0 /\ q[w[2]][v] < 0}})

ElimByEq(b, v, k) ==
    [b EXCEPT !.eq = ElimAll(RemoveAt(b.eq, k), b.eq[k], v), !.ineq = ElimAll(b.ineq, b.eq[k], v)]

isl_basic_set_eliminate_var(b, v) ==
    IF b.empty THEN b
    ELSE IF \E k \in DOMAIN b.eq : b.eq[k][v] # 0
         THEN ElimByEq(b, v, CHOOSE k \in DOMAIN b.eq :
                                 b.eq[k][v] # 0 /\ \A j \in 1..(k - 1) : b.eq[j][v] = 0)
    ELSE [b EXCEPT !.ineq = FMIneqs(b.ineq, v)]

\* the variables in the TLA+ columns first .. first + n - 1
RECURSIVE isl_basic_set_eliminate_vars(_, _, _)
isl_basic_set_eliminate_vars(b, first, n) ==
    IF n = 0 THEN b
    ELSE isl_basic_set_eliminate_vars(
             isl_basic_set_simplify(isl_basic_set_eliminate_var(b, first + n - 1)), first, n - 1)

DropCols(rows, first, n) ==
    [i \in DOMAIN rows |-> SubSeq(rows[i], 1, first - 1) \o SubSeq(rows[i], first + n, Len(rows[i]))]

DropDims(b, first, n) ==
    IF b.empty THEN b ELSE BSet(DropCols(b.eq, first, n), DropCols(b.ineq, first, n))

\* isl_basic_set_remove_dims that drops the columns without eliminating
isl_basic_set_remove_dims_Mut(b, first, n) == DropDims(b, first + 2, n)

\* first is the C index of the first dimension removed
isl_basic_set_remove_dims(b, first, n) ==
    DropDims(isl_basic_set_eliminate_vars(b, first + 2, n), first + 2, n)

Zeros(n) == [k \in 1..n |-> 0]

\* the row of member i (0 or 1) in the space of the three sets
Lift(row, i, dim) == Zeros((i + 1) * (1 + dim)) \o row \o Zeros((1 - i) * (1 + dim))

LiftAll(rows, i, dim) == [j \in DOMAIN rows |-> Lift(rows[j], i, dim)]

\* the dilation factor of member i is not negative
DilationRow(i, dim) ==
    [k \in 1..(3 * (1 + dim)) |-> IF k = (i + 1) * (1 + dim) + 1 THEN 1 ELSE 0]

\* coordinate j (C index, 0 the homogeneous one) of the hull is the sum of
\* those of the members
SumRow(j, dim) ==
    [k \in 1..(3 * (1 + dim)) |->
        IF k = j + 1 THEN -1
        ELSE IF k = 1 + dim + j + 1 \/ k = 2 * (1 + dim) + j + 1 THEN 1 ELSE 0]

PairSystem(b1, b2, dim) ==
    BSet(LiftAll(b1.eq, 0, dim) \o LiftAll(b2.eq, 1, dim) \o [j \in 1..(1 + dim) |-> SumRow(j - 1, dim)],
         LiftAll(b1.ineq, 0, dim) \o <<DilationRow(0, dim)>>
         \o LiftAll(b2.ineq, 1, dim) \o <<DilationRow(1, dim)>>)

\* convex_hull_pair without the final SingleHull
convex_hull_pair_Mut(bset1, bset2, dim) ==
    IF bset1 = NULL \/ bset2 = NULL THEN NULL
    ELSE isl_basic_set_remove_dims(PairSystem(bset1, bset2, dim), dim, 2 * (1 + dim))

convex_hull_pair(bset1, bset2, dim) ==
    IF bset1 = NULL \/ bset2 = NULL THEN NULL
    ELSE isl_basic_set_convex_hull(
             isl_basic_set_remove_dims(PairSystem(bset1, bset2, dim), dim, 2 * (1 + dim)))

RECURSIVE ElimLoop(_, _, _)
ElimLoop(convex_hull, S, dim) ==
    IF Len(S) = 0 THEN convex_hull
    ELSE ElimLoop(convex_hull_pair(convex_hull, S[1], dim), isl_set_drop_basic_set(S, 1), dim)

uset_convex_hull_elim(S, dim) == ElimLoop(S[1], isl_set_drop_basic_set(S, 1), dim)

(***************************************************************************)
(* The matrices of the coordinate changes (isl_mat_right_inverse,          *)
(* isl_basic_set_remove_equalities) and the preimage under them.  A change *)
(* of coordinates is named by the subspace H it parametrises: down takes   *)
(* a row over the ambient space to a row over the coordinates of H, up     *)
(* takes it back.  A point has no coordinate; a line c = 0 of the plane    *)
(* has the coordinate z with x = p0 + z * (-c2, c1).  The result of the    *)
(* functions of the kernel does not depend on the parametrisation chosen.  *)
(***************************************************************************)
CRASH == [crash |-> TRUE]

Failed(h) == h = NULL \/ h = CRASH

LineSq(c) == c[2] * c[2] + c[3] * c[3]

RowToLine(c, g) ==
    <<g[1] * LineSq(c) - c[1] * (g[2] * c[2] + g[3] * c[3]),
      LineSq(c) * (g[3] * c[2] - g[2] * c[3])>>

RowFromLine(c, l) == <<l[1] * LineSq(c), -(l[2] * c[3]), l[2] * c[2]>>

PointOf(H, dim) ==
    IF dim = 1 THEN NormPoint(-H.eq[1][1], 0, H.eq[1][2])
    ELSE Meet(Pad(H.eq[1]), Pad(H.eq[2]))

RowDown(H, dim, g) ==
    IF Len(H.eq) = dim THEN <<EvalNum(Pad(g), PointOf(H, dim))>> ELSE RowToLine(H.eq[1], g)

RowUp(H, dim, l) ==
    IF Len(H.eq) = dim THEN [i \in 1..(1 + dim) |-> IF i = 1 THEN l[1] ELSE 0]
    ELSE RowFromLine(H.eq[1], l)

Mat(H, dim, up) == [H |-> H, dim |-> dim, up |-> up]

\* the pair (T, T2) of isl_basic_set_remove_equalities
isl_basic_set_remove_equalities(H, dim) == [T |-> Mat(H, dim, FALSE), T2 |-> Mat(H, dim, TRUE)]

ApplyMat(M, g) == IF M.up THEN RowUp(M.H, M.dim, g) ELSE RowDown(M.H, M.dim, g)

MapRows(rows, M) == [i \in DOMAIN rows |-> ApplyMat(M, rows[i])]

isl_basic_set_preimage(b, M) ==
    IF Failed(b) THEN b
    ELSE IF b.empty THEN b
    ELSE isl_basic_set_simplify(BSet(MapRows(b.eq, M), MapRows(b.ineq, M)))

isl_set_preimage(S, M) == [i \in DOMAIN S |-> isl_basic_set_preimage(S[i], M)]

(***************************************************************************)
(* uset_is_bound, is_independent_bound and independent_bounds.             *)
(***************************************************************************)
ScaleBy(c, d) == IF d # 1 THEN isl_seq_scale(c, d) ELSE c

\* ShiftBy that moves the constant for the first member only
ShiftBy_Mut(c, first, opt) == IF first THEN [c EXCEPT ![1] = @ - opt] ELSE c

ShiftBy(c, first, opt) == IF first \/ opt < 0 THEN [c EXCEPT ![1] = @ - opt] ELSE c

\* one member of the loop of uset_is_bound; r is the answer of isl_solve_lp
IsBoundMember(st, r) ==
    IF r.res = "unbounded" THEN [st EXCEPT !.ret = 0]
    ELSE IF r.res = "empty" THEN st
    ELSE [c |-> ShiftBy(ScaleBy(st.c, r.d), st.first, r.n), first |-> FALSE, ret |-> 1]

RECURSIVE IsBoundLoop(_, _, _)
IsBoundLoop(st, S, j) ==
    IF j > Len(S) \/ st.ret = 0 THEN st
    ELSE IsBoundLoop(IF S[j].empty THEN st ELSE IsBoundMember(st, isl_solve_lp(S[j], st.c)),
                     S, j + 1)

uset_is_bound(S, c) == IsBoundLoop([c |-> c, first |-> TRUE, ret |-> 1], S, 1)

FirstNZ(row) == isl_seq_first_non_zero(Lin(row))

\* isl_seq_elim on the linear parts; pos is the C index in the linear part
ElimLin(row, src, pos) == <<row[1]>> \o isl_seq_elim(Lin(row), Lin(src), pos + 1)

InsertAt(s, i, x) == SubSeq(s, 1, i - 1) \o <<x>> \o SubSeq(s, i, Len(s))

\* the loop over the previous directions: the row as reduced, the place i
\* where the loop stopped and whether the row has become zero
RECURSIVE IndepLoop(_, _, _)
\* IndepElim without the test of a row that has become zero
IndepElim_Mut(row, dirs, i) == IndepLoop(row, dirs, i + 1)

IndepElim(row, dirs, i) ==
    IF FirstNZ(row) < 0 THEN [row |-> row, i |-> i, zero |-> TRUE]
    ELSE IndepLoop(row, dirs, i + 1)

IndepLoop(row, dirs, i) ==
    IF i > Len(dirs) THEN [row |-> row, i |-> i, zero |-> FALSE]
    ELSE IF FirstNZ(dirs[i]) < FirstNZ(row) THEN IndepLoop(row, dirs, i + 1)
    ELSE IF FirstNZ(dirs[i]) > FirstNZ(row) THEN [row |-> row, i |-> i, zero |-> FALSE]
    ELSE IndepElim(ElimLin(row, dirs[i], FirstNZ(row)), dirs, i)

\* IndepInsert that leaves the new row last
IndepInsert_Mut(dirs, i, b) ==
    IF b.ret # 1 THEN [f |-> b.ret, dirs |-> dirs] ELSE [f |-> 1, dirs |-> Append(dirs, b.c)]

IndepInsert(dirs, i, b) ==
    IF b.ret # 1 THEN [f |-> b.ret, dirs |-> dirs] ELSE [f |-> 1, dirs |-> InsertAt(dirs, i, b.c)]

IndepBound(S, dirs, e) ==
    IF e.zero THEN [f |-> 0, dirs |-> dirs] ELSE IndepInsert(dirs, e.i, uset_is_bound(S, e.row))

is_independent_bound(S, c, dirs) ==
    IF dirs # <<>> /\ IsZeroSeq(Lin(c)) THEN [f |-> 0, dirs |-> dirs]
    ELSE IndepBound(S, dirs, IndepLoop(<<0>> \o Lin(c), dirs, 1))

RECURSIVE IndepBounds(_, _, _, _, _)
IndepBounds(S, cands, k, r, dim) ==
    IF Len(r.dirs) >= dim \/ k > Len(cands) THEN r.dirs
    ELSE IndepBounds(S, cands, k + 1, is_independent_bound(S, cands[k], r.dirs), dim)

\* the constraints of the members in the order they are tried
BoundCands(S) == Flat([i \in DOMAIN S |-> S[i].eq \o S[i].ineq])

independent_bounds(S, dim) == IndepBounds(S, BoundCands(S), 1, [f |-> 0, dirs |-> <<>>], dim)

(***************************************************************************)
(* wrap_facet.  The linear program of wrap_constraints is over the sum of  *)
(* the cones of the members in the coordinates x1 = facet, x2 = ridge; the *)
(* cone of a bounded member is spanned by its vertices, so the program is  *)
(* one over the cone spanned by the pairs <<facet(v), ridge(v)>>.  The     *)
(* absent row (C NULL) is <<>>.                                            *)
(***************************************************************************)
WrapGens(S, facet, ridge) ==
    {<<EvalNum(Pad(facet), v), EvalNum(Pad(ridge), v)>> :
        v \in UNION {Vertices(Cons(S[i])) : i \in DOMAIN S}}

WrapLP(G) ==
    IF ~\E g \in G : g[1] > 0 THEN LPEmpty
    ELSE IF \/ \E g \in G : g[1] = 0 /\ g[2] < 0
            \/ \E g \in G, h \in G : g[1] > 0 /\ h[1] < 0 /\ g[1] * h[2] - h[1] * g[2] < 0
         THEN LPUnbounded
    ELSE LPOk(RatMin({NormRat(g[2], g[1]) : g \in {g \in G : g[1] > 0}}))

\* WrapResult turning the facet the other way round the ridge
WrapResult_Mut(r, facet, ridge) ==
    IF r.res = "ok" THEN isl_seq_combine(r.n, facet, r.d, ridge)
    ELSE IF r.res = "unbounded" THEN facet
    ELSE <<>>

\* WrapResult combining facet and ridge on isl_lp_unbounded too
WrapResultRot_Mut(r, facet, ridge) ==
    IF r.res \in {"ok", "unbounded"} THEN isl_seq_combine(-r.n, facet, r.d, ridge) ELSE <<>>

WrapResult(r, facet, ridge) ==
    IF r.res = "ok" THEN isl_seq_combine(-r.n, facet, r.d, ridge)
    ELSE IF r.res = "unbounded" THEN facet
    ELSE <<>>

wrap_facet(S, facet, ridge) == WrapResult(WrapLP(WrapGens(S, facet, ridge)), facet, ridge)

(***************************************************************************)
(* initial_facet_constraint and initial_hull.  The product bounds * U * Q  *)
(* takes the component of the face out of the bounds: with the face a      *)
(* point, every bound is moved to pass through it.  The absent matrix is   *)
(* <<>>.                                                                   *)
(***************************************************************************)
isl_basic_set_add_equality(b, c) == IF b.empty THEN b ELSE [b EXCEPT !.eq = Append(@, c)]

isl_set_add_equality(S, c) == [i \in DOMAIN S |-> isl_basic_set_add_equality(S[i], c)]

ThroughPoint(rows, p) ==
    [i \in DOMAIN rows |->
        [isl_seq_scale(rows[i], p[3]) EXCEPT ![1] = @ - EvalNum(Pad(rows[i]), p)]]

\* FaceProduct that leaves the bounds as they are
FaceProduct_Mut(bounds, face) == bounds

FaceProduct(bounds, face) ==
    IF Len(face.eq) < 2 THEN [i \in DOMAIN bounds |-> Zeros(Len(bounds[i]))]
    ELSE ThroughPoint(bounds, Meet(Pad(face.eq[1]), Pad(face.eq[2])))

RECURSIVE DropZeroRows(_)
DropZeroRows(b) ==
    IF ~IsZeroSeq(Last(b)) THEN b
    ELSE IF Len(b) - 1 > 1 THEN DropZeroRows(DropLast(b))
    ELSE <<>>

RECURSIVE FacetLoop(_, _, _)
FacetNext(S, bounds, dim, f) ==
    IF f = <<>> THEN <<>> ELSE FacetLoop(S, DropLast([bounds EXCEPT ![1] = f]), dim)

FacetWrap(S, bounds, dim) ==
    IF bounds = <<>> THEN <<>>
    ELSE FacetNext(S, bounds, dim, wrap_facet(S, bounds[1], Last(bounds)))

FacetFace(S, bounds, dim, face) ==
    IF Len(face.eq) = 1 THEN bounds
    ELSE FacetWrap(S, DropZeroRows(FaceProduct(bounds, face)), dim)

FacetLoop(S, bounds, dim) ==
    IF Len(bounds) <= 1 THEN bounds
    ELSE FacetFace(S, bounds, dim,
                   isl_set_affine_hull(isl_set_add_equality(S, bounds[1]), dim))

initial_facet_constraint(S, bounds, dim) ==
    IF Len(S) = 0 \/ Len(bounds) # dim THEN <<>> ELSE FacetLoop(S, bounds, dim)

InitialFacet(h, bounds) ==
    IF bounds = <<>> THEN NULL ELSE [h EXCEPT !.ineq = Append(@, bounds[1])]

initial_hull(h, S, dim) ==
    IF h = NULL THEN NULL
    ELSE InitialFacet(h, initial_facet_constraint(S, independent_bounds(S, dim), dim))

(***************************************************************************)
(* common_constraints and proto_hull.  The table of struct max_constraint  *)
(* is the sequence of the entries for the inequalities of the best member; *)
(* an entry is found by its linear part while it is in the table.          *)
(***************************************************************************)
EqFree(S) == {i \in DOMAIN S : Len(S[i].eq) = 0}

BestMember(S) ==
    CHOOSE i \in EqFree(S) : \A j \in EqFree(S) :
        \/ Len(S[i].ineq) < Len(S[j].ineq)
        \/ (Len(S[i].ineq) = Len(S[j].ineq) /\ i <= j)

MaxConstraints(b) == [i \in DOMAIN b.ineq |-> [c |-> b.ineq[i], count |-> 0, ineq |-> TRUE, in |-> TRUE]]

\* UpdateEntry that keeps the constant of the entry
UpdateEntry_Mut(e, con, n, ineq) ==
    IF e.count < n THEN [e EXCEPT !.in = FALSE]
    ELSE IF e.c[1] > con[1] THEN [e EXCEPT !.count = @ + 1]
    ELSE IF e.c[1] = con[1] THEN [e EXCEPT !.count = @ + 1, !.ineq = IF ineq THEN TRUE ELSE @]
    ELSE [e EXCEPT !.count = @ + 1, !.ineq = ineq]

\* UpdateEntry that takes the mark of the member also when the constants are equal
UpdateEntryEq_Mut(e, con, n, ineq) ==
    IF e.count < n THEN [e EXCEPT !.in = FALSE]
    ELSE IF e.c[1] > con[1] THEN [e EXCEPT !.count = @ + 1]
    ELSE [e EXCEPT !.count = @ + 1, !.c = [@ EXCEPT ![1] = con[1]], !.ineq = ineq]

UpdateEntry(e, con, n, ineq) ==
    IF e.count < n THEN [e EXCEPT !.in = FALSE]
    ELSE IF e.c[1] > con[1] THEN [e EXCEPT !.count = @ + 1]
    ELSE IF e.c[1] = con[1] THEN [e EXCEPT !.count = @ + 1, !.ineq = IF ineq THEN TRUE ELSE @]
    ELSE [e EXCEPT !.count = @ + 1, !.c = [@ EXCEPT ![1] = con[1]], !.ineq = ineq]

update_constraint(table, con, n, ineq) ==
    [k \in DOMAIN table |->
        IF table[k].in /\ isl_seq_eq(Lin(table[k].c), Lin(con))
        THEN UpdateEntry(table[k], con, n, ineq) ELSE table[k]]

has_constraint(table, con, n) ==
    \E k \in DOMAIN table :
        /\ table[k].in
        /\ isl_seq_eq(Lin(table[k].c), Lin(con))
        /\ table[k].count >= n
        /\ table[k].c[1] = con[1]

\* the constraints of a member as they are handed to update_constraint: each
\* equality negated and as it is, then the inequalities
EqBothSigns(eqs) == Flat([i \in DOMAIN eqs |-> <<isl_seq_neg(eqs[i]), eqs[i]>>])

RECURSIVE UpdateRows(_, _, _, _, _)
UpdateRows(table, rows, k, n, ineq) ==
    IF k > Len(rows) THEN table
    ELSE UpdateRows(update_constraint(table, rows[k], n, ineq), rows, k + 1, n, ineq)

UpdateMember(table, b, n) ==
    UpdateRows(UpdateRows(table, EqBothSigns(b.eq), 1, n, FALSE), b.ineq, 1, n, Len(b.eq) = 0)

RECURSIVE UpdateMembers(_, _, _, _, _)
UpdateMembers(table, S, s, best, n) ==
    IF s > Len(S) THEN table
    ELSE IF s = best THEN UpdateMembers(table, S, s + 1, best, n)
    ELSE UpdateMembers(UpdateMember(table, S[s], n), S, s + 1, best, n + 1)

CommonRows(table, n) ==
    SelectSeq([k \in DOMAIN table |-> IF table[k].count >= n /\ table[k].ineq THEN table[k].c ELSE <<>>],
              LAMBDA r : r # <<>>)

IsHull(table, S, n, n_ineq) ==
    \E s \in DOMAIN S :
        /\ Len(S[s].eq) = 0
        /\ Len(S[s].ineq) = n_ineq
        /\ \A i \in DOMAIN S[s].ineq : has_constraint(table, S[s].ineq[i], n)

CommonFound(h, rows, table, S, n) ==
    [hull |-> [h EXCEPT !.ineq = @ \o rows], is_hull |-> IsHull(table, S, n, Len(h.ineq) + Len(rows))]

CommonFrom(h, S, table, n) == CommonFound(h, CommonRows(table, n), table, S, n)

CommonBest(h, S, best) ==
    IF \E i \in DOMAIN S[best].ineq, j \in DOMAIN S[best].ineq :
           i < j /\ isl_seq_eq(Lin(S[best].ineq[i]), Lin(S[best].ineq[j]))
    THEN [hull |-> h, is_hull |-> FALSE]
    ELSE CommonFrom(h, S, UpdateMembers(MaxConstraints(S[best]), S, 1, best, 0), Len(S) - 1)

common_constraints(h, S) ==
    IF EqFree(S) = {} THEN [hull |-> h, is_hull |-> FALSE]
    ELSE CommonBest(h, S, BestMember(S))

proto_hull(S) == common_constraints(BSet(<<>>, <<>>), S)

(***************************************************************************)
(* compute_facet, extend and uset_convex_hull_wrap.  CRASH is the value of *)
(* a call that has dereferenced the null pointer.                          *)
(***************************************************************************)
RECURSIVE uset_convex_hull_wrap(_, _)

WrapBounded(N, dim) ==
    IF Len(N) = 1 THEN N[1]
    ELSE IF dim = 1 THEN convex_hull_1d(N)
    ELSE uset_convex_hull_wrap(N, dim)

uset_convex_hull_wrap_bounded(S, dim) ==
    IF dim = 0 THEN isl_basic_set_universe ELSE WrapBounded(isl_set_normalize(S), dim)

FacetChecked(facet) ==
    IF facet = NULL THEN CRASH
    ELSE IF Len(facet.eq) # 0 THEN NULL
    ELSE facet

FacetVia(S, M, dim) ==
    FacetChecked(isl_basic_set_preimage(
                     uset_convex_hull_wrap_bounded(isl_set_preimage(S, M.T), dim - 1), M.T2))

compute_facet(S, c, dim) ==
    FacetVia(S, isl_basic_set_remove_equalities(BSet(<<c>>, <<>>), dim), dim)

\* the facet of b in the hyperplane c = 0
FacetAt(b, c) ==
    isl_basic_set_normalize_constraints(isl_basic_set_gauss(isl_basic_set_add_equality(b, c)))

\* NewRidges that takes every ridge of the facet for new
NewRidges_Mut(facet, hull_facet) == facet.ineq

NewRidges(facet, hull_facet) ==
    SelectSeq(facet.ineq,
              LAMBDA r : ~\E f \in DOMAIN hull_facet.ineq : isl_seq_eq(r, hull_facet.ineq[f]))

RECURSIVE WrapRidges(_, _, _, _, _)
WrapAdded(h, S, row, ridges, j, w) ==
    IF w = <<>> THEN NULL
    ELSE WrapRidges([h EXCEPT !.ineq = Append(@, w)], S, row, ridges, j + 1)

WrapRidges(h, S, row, ridges, j) ==
    IF j > Len(ridges) THEN h
    ELSE WrapAdded(h, S, row, ridges, j, wrap_facet(S, row, ridges[j]))

ExtendWith(h, S, i, facet) ==
    IF Failed(facet) THEN CRASH
    ELSE WrapRidges(h, S, h.ineq[i],
                    NewRidges(FacetAt(facet, h.ineq[i]), FacetAt(h, h.ineq[i])), 1)

\* one round of the loop of extend: the facet of inequality i
ExtendFacet(h, S, i, dim) == ExtendWith(h, S, i, compute_facet(S, h.ineq[i], dim))

RECURSIVE ExtendLoop(_, _, _, _)
ExtendLoop(h, S, i, dim) ==
    IF Failed(h) THEN h
    ELSE IF i > Len(h.ineq) THEN h
    ELSE ExtendLoop(ExtendFacet(h, S, i, dim), S, i + 1, dim)

ExtendEnd(h) == IF Failed(h) THEN h ELSE isl_basic_set_simplify(h)

extend(h, S, dim) ==
    IF Len(S) = 0 THEN NULL
    ELSE IF h = NULL THEN CRASH
    ELSE ExtendEnd(ExtendLoop(h, S, 1, dim))

WrapFrom(p, S, dim) ==
    IF p.is_hull THEN p.hull
    ELSE extend(IF Len(p.hull.ineq) = 0 THEN initial_hull(p.hull, S, dim) ELSE p.hull, S, dim)

uset_convex_hull_wrap(S, dim) == WrapFrom(proto_hull(S), S, dim)

(***************************************************************************)
(* uset_convex_hull, modulo_affine_hull and isl_map_convex_hull as         *)
(* functions of the set.                                                   *)
(***************************************************************************)
UsetDispatch(N, dim) ==
    IF Len(N) = 1 THEN N[1]
    ELSE IF dim = 1 THEN convex_hull_1d(N)
    ELSE IF ~isl_set_is_bounded(N, dim) THEN uset_convex_hull_elim(N, dim)
    ELSE uset_convex_hull_wrap(N, dim)

uset_convex_hull(S, dim) ==
    IF dim = 0 THEN convex_hull_0d(S) ELSE UsetDispatch(isl_set_normalize(S), dim)

ModuloVia(S, affine_hull, M, dim) ==
    isl_basic_set_intersect(
        isl_basic_set_preimage(
            uset_convex_hull(isl_set_preimage(S, M.T), dim - Len(affine_hull.eq)), M.T2),
        affine_hull)

modulo_affine_hull(S, affine_hull, dim) ==
    ModuloVia(S, affine_hull, isl_basic_set_remove_equalities(affine_hull, dim), dim)

\* the flag cleared at the end is cleared in the result, absent or not
ConvexHullEnd(bset) == IF bset = NULL THEN CRASH ELSE bset

ConvexHullVia(S, affine_hull, dim) ==
    ConvexHullEnd(IF Len(affine_hull.eq) # 0 THEN modulo_affine_hull(S, affine_hull, dim)
                  ELSE uset_convex_hull(S, dim))

isl_map_convex_hull(S, dim) ==
    IF Len(S) = 0 THEN isl_basic_set_empty
    ELSE ConvexHullVia(S, isl_set_affine_hull(S, dim), dim)

isl_set_convex_hull(S, dim) == isl_map_convex_hull(S, dim)

(***************************************************************************)
(* ConvexHull: isl_map_convex_hull step by step.  aux holds the ambient    *)
(* dimension of the working set (dim), the set and the dimension the call  *)
(* was made with (input, in_dim), the affine hull, whether the hull is     *)
(* computed modulo the affine hull, the flag is_hull of proto_hull and the *)
(* counter i of the loop of extend.  set is the working copy of the set.   *)
(***************************************************************************)
ConvexIdle(dim, S) ==
    [dim |-> dim, input |-> S, in_dim |-> dim, affine_hull |-> NULL, modulo |-> FALSE,
     is_hull |-> FALSE, i |-> 0]

\* where uset_convex_hull returns to
Ret(a) == IF a.modulo THEN "post" ELSE "final"

\* isl_map_convex_hull up to the choice between its two branches
convex_hull_begin ==
    /\ pc = "start"
    /\ IF Len(set) = 0
       THEN /\ hull' = isl_basic_set_empty
            /\ pc' = "done"
            /\ UNCHANGED aux
       ELSE /\ aux' = [aux EXCEPT !.affine_hull = isl_set_affine_hull(set, aux.dim)]
            /\ pc' = "affine"
            /\ UNCHANGED hull
    /\ UNCHANGED set

\* modulo_affine_hull up to the call of uset_convex_hull
modulo_affine_hull_begin ==
    /\ pc = "affine"
    /\ Len(aux.affine_hull.eq) # 0
    /\ set' = isl_set_preimage(set, isl_basic_set_remove_equalities(aux.affine_hull, aux.dim).T)
    /\ aux' = [aux EXCEPT !.dim = @ - Len(aux.affine_hull.eq), !.modulo = TRUE]
    /\ pc' = "uset"
    /\ UNCHANGED hull

\* uset_convex_hull up to the short cuts
uset_convex_hull_begin ==
    /\ pc = "uset" \/ (pc = "affine" /\ Len(aux.affine_hull.eq) = 0)
    /\ IF aux.dim = 0
       THEN /\ hull' = convex_hull_0d(set)
            /\ pc' = Ret(aux)
            /\ UNCHANGED set
       ELSE /\ set' = isl_set_normalize(set)
            /\ pc' = "dispatch"
            /\ UNCHANGED hull
    /\ UNCHANGED aux

uset_single ==
    /\ pc = "dispatch"
    /\ Len(set) = 1
    /\ hull' = set[1]
    /\ pc' = Ret(aux)
    /\ UNCHANGED <<set, aux>>

uset_1d ==
    /\ pc = "dispatch"
    /\ Len(set) # 1
    /\ aux.dim = 1
    /\ hull' = convex_hull_1d(set)
    /\ pc' = Ret(aux)
    /\ UNCHANGED <<set, aux>>

\* uset_convex_hull_elim takes the first member
elim_begin ==
    /\ pc = "dispatch"
    /\ Len(set) # 1
    /\ aux.dim # 1
    /\ ~isl_set_is_bounded(set, aux.dim)
    /\ hull' = set[1]
    /\ set' = isl_set_drop_basic_set(set, 1)
    /\ pc' = "elim"
    /\ UNCHANGED aux

\* one round of the loop of uset_convex_hull_elim, and its end
elim_pair ==
    /\ pc = "elim"
    /\ IF Len(set) > 0
       THEN /\ hull' = convex_hull_pair(hull, set[1], aux.dim)
            /\ set' = isl_set_drop_basic_set(set, 1)
            /\ UNCHANGED pc
       ELSE /\ pc' = Ret(aux)
            /\ UNCHANGED <<set, hull>>
    /\ UNCHANGED aux

WrapStart(p) ==
    /\ hull' = p.hull
    /\ aux' = [aux EXCEPT !.is_hull = p.is_hull, !.i = 1]
    /\ pc' = IF p.is_hull THEN Ret(aux) ELSE "wrap"

\* uset_convex_hull_wrap: proto_hull
wrap_begin ==
    /\ pc = "dispatch"
    /\ Len(set) # 1
    /\ aux.dim # 1
    /\ isl_set_is_bounded(set, aux.dim)
    /\ WrapStart(proto_hull(set))
    /\ UNCHANGED set

\* uset_convex_hull_wrap: initial_hull if there is no facet yet
wrap_initial ==
    /\ pc = "wrap"
    /\ hull' = IF Len(hull.ineq) = 0 THEN initial_hull(hull, set, aux.dim) ELSE hull
    /\ pc' = "extend"
    /\ UNCHANGED <<set, aux>>

\* one round of the loop of extend
extend_facet ==
    /\ pc = "extend"
    /\ Len(set) > 0
    /\ ~Failed(hull)
    /\ aux.i <= Len(hull.ineq)
    /\ hull' = ExtendFacet(hull, set, aux.i, aux.dim)
    /\ aux' = [aux EXCEPT !.i = @ + 1]
    /\ UNCHANGED <<pc, set>>

\* extend returns: its assertion fails, it was entered without a hull, a
\* round has failed, or the loop is over
extend_end ==
    /\ pc = "extend"
    /\ IF Len(set) = 0 \/ Failed(hull) THEN TRUE ELSE aux.i > Len(hull.ineq)
    /\ hull' = IF Len(set) = 0 THEN NULL
               ELSE IF hull = NULL /\ aux.i = 1 THEN CRASH
               ELSE ExtendEnd(hull)
    /\ pc' = Ret(aux)
    /\ UNCHANGED <<set, aux>>

\* modulo_affine_hull after uset_convex_hull
modulo_affine_hull_end ==
    /\ pc = "post"
    /\ hull' = isl_basic_set_intersect(
                   isl_basic_set_preimage(
                       hull, isl_basic_set_remove_equalities(aux.affine_hull, aux.in_dim).T2),
                   aux.affine_hull)
    /\ pc' = "final"
    /\ UNCHANGED <<set, aux>>

\* isl_map_convex_hull returns the hull it has
convex_hull_end ==
    /\ pc = "final"
    /\ hull # NULL
    /\ pc' = IF hull = CRASH THEN "crash" ELSE "done"
    /\ UNCHANGED <<set, hull, aux>>

\* isl_map_convex_hull clears a flag in the absent hull: the write through
\* the null pointer ends the program, or goes unnoticed
convex_hull_null ==
    /\ pc = "final"
    /\ hull = NULL
    /\ pc' \in {"crash", "done"}
    /\ UNCHANGED <<set, hull, aux>>

NextConvexHull ==
    \/ convex_hull_begin
    \/ modulo_affine_hull_begin
    \/ uset_convex_hull_begin
    \/ uset_single
    \/ uset_1d
    \/ elim_begin
    \/ elim_pair
    \/ wrap_begin
    \/ wrap_initial
    \/ extend_facet
    \/ extend_end
    \/ modulo_affine_hull_end
    \/ convex_hull_end
    \/ convex_hull_null

(***************************************************************************)
(* The unions ConvexHull is run on, of dimension 0, 1 and 2: bounded and   *)
(* unbounded members, members with equalities, with a redundant or an      *)
(* implicit equality constraint, the member flagged empty and members that *)
(* are found to be empty.                                                  *)
(***************************************************************************)
MaxMembersCH == 3

Members0D == {isl_basic_set_universe, isl_basic_set_empty, BSet(<<>>, <<<<-1>>>>)}

Members1DCH ==
    {BSet(<<>>, <<<<0, 1>>, <<1, -1>>>>),
     BSet(<<>>, <<<<-2, 1>>, <<3, -1>>>>),
     BSet(<<<<-1, 1>>>>, <<>>),
     BSet(<<>>, <<<<0, 1>>>>),
     isl_basic_set_empty,
     BSet(<<>>, <<<<-1, 1>>, <<0, -1>>>>)}

Members2D ==
    {BoxSH(0, 1, 0, 1), BoxSH(2, 3, 0, 2), BoxSH(0, 3, 0, 2),
     BSet(<<>>, <<<<0, 1, 0>>, <<0, 0, 1>>, <<2, -1, -1>>>>),
     BSet(<<<<-1, 0, 1>>>>, <<<<0, 1, 0>>, <<2, -1, 0>>>>),
     BSet(<<<<1, 0, -1>>>>, <<<<-3, 1, 0>>, <<4, -1, 0>>>>),
     BSet(<<<<-2, 0, 1>>, <<-1, 1, 0>>>>, <<>>),
     BSet(<<>>, <<<<0, 1, 0>>, <<0, -1, 0>>, <<0, 0, 1>>, <<2, 0, -1>>>>),
     BSet(<<>>, <<<<0, 1, 0>>, <<1, -1, 0>>, <<0, 0, 1>>, <<1, 0, -1>>, <<5, -1, 0>>>>),
     BSet(<<>>, <<<<0, 1, 0>>>>),
     BSet(<<>>, <<<<-1, 1, 0>>, <<-1, 0, 1>>>>),
     isl_basic_set_empty,
     BSet(<<>>, <<<<-1, 1, 0>>, <<0, -1, 0>>, <<0, 0, 1>>>>)}

SeqsFrom0(M, n) == {<<>>} \cup SeqsUpTo(M, n)

InputsCH ==
    {ConvexIdle(0, S) : S \in SeqsFrom0(Members0D, MaxMembersCH)}
    \cup {ConvexIdle(1, S) : S \in SeqsFrom0(Members1DCH, MaxMembersCH)}
    \cup {ConvexIdle(2, S) : S \in SeqsFrom0(Members2D, MaxMembersCH)}

InitConvexHull == pc = "start" /\ aux \in InputsCH /\ set = aux.input /\ hull = NULL

SpecConvexHull == InitConvexHull /\ [][NextConvexHull]_vars

\* the step by step run and the function agree
StepsAgree ==
    /\ pc = "done" => hull = (IF hull = NULL THEN NULL ELSE isl_map_convex_hull(aux.input, aux.in_dim))
    /\ pc = "crash" => isl_map_convex_hull(aux.input, aux.in_dim) = CRASH

\* the members of the input that hold a point
NonEmptyMembers(S) == {m \in DOMAIN S : ~IsEmptyBSet(S[m])}

\* the run has ended, with a result or without one
Ended == pc \in {"done", "crash"}

\* C1: every point of every member of S satisfies the constraints of the
\* hull that convex_hull returns, on every path
C1_MembersContained ==
    Ended =>
        \A m \in NonEmptyMembers(aux.input) : ~Failed(hull) /\ SubsetOf(aux.input[m], hull)

\* the representation up to normalisation: the constraints after simplify,
\* each divided by its gcd, an equality in its canonical sign
Canon(b) ==
    [eq |-> {CanonLine(b.eq[i]) : i \in DOMAIN b.eq},
     ineq |-> {NormRow(b.ineq[i]) : i \in DOMAIN b.ineq},
     empty |-> b.empty]

CanonOf(b) == IF Failed(b) THEN b ELSE Canon(isl_basic_set_simplify(b))

\* SingleHull run on b whatever its NO_REDUNDANT flag says
SingleHullAnew(b) == isl_basic_map_convex_hull([b EXCEPT !.nored = FALSE])

\* C5: SingleHull removes no inequality from the hull returned and adds no
\* equality to it
C5_NoRedundantInequality ==
    (pc = "done" /\ ~Failed(hull) /\ Len(aux.input) >= 1) =>
        \A r \in {isl_basic_map_convex_hull(hull), SingleHullAnew(hull)} :
            /\ Len(r.ineq) = Len(hull.ineq)
            /\ Len(r.eq) = Len(hull.eq)

\* C6: the hull of the hull alone is the hull, up to normalisation, and
\* SingleHull applied twice is SingleHull applied once
C6_Idempotent ==
    (pc = "done" /\ ~Failed(hull)) =>
        /\ CanonOf(isl_map_convex_hull(<<hull>>, aux.in_dim)) = CanonOf(hull)
        /\ \A b \in {hull} \cup SeqToSet(aux.input) :
              isl_basic_map_convex_hull(isl_basic_map_convex_hull(b)) = isl_basic_map_convex_hull(b)

\* what a call yields: its hull up to normalisation, or no hull at all
Outcome(b) == IF Failed(b) THEN CRASH ELSE CanonOf(b)

Orders(S) ==
    {[i \in DOMAIN S |-> S[f[i]]] :
        f \in {g \in [DOMAIN S -> DOMAIN S] : \A i, j \in DOMAIN S : g[i] = g[j] => i = j}}

C8_AffineHullPreserved ==
    (Ended /\ NonEmptyMembers(aux.input) # {}) =>
        /\ ~Failed(hull)
        /\ AffOf(hull) = AffOfSet(aux.input, 1)
        /\ aux.modulo = (Len(aux.affine_hull.eq) # 0)
        /\ Len(aux.affine_hull.eq) = 0 => hull.eq = <<>>
        /\ \A k \in DOMAIN aux.affine_hull.eq : VanishesOn(aux.affine_hull.eq[k], hull)

\* C10: the hull of a union without a point is returned, flagged empty, in
\* every dimension; in dimension 0 the hull is the universe iff the union
\* holds a point
C10_EmptinessNoError ==
    /\ (Ended /\ NonEmptyMembers(aux.input) = {}) => (pc = "done" /\ ~Failed(hull) /\ hull.empty)
    /\ (Ended /\ aux.in_dim = 0) =>
          (pc = "done" /\ ~Failed(hull)
           /\ (hull = isl_basic_set_universe) = (NonEmptyMembers(aux.input) # {}))


\* two boxes side by side: the hull has the facet from (1,1) to (3,2) that
\* neither box has
C1_Witness ==
    /\ pc = "done"
    /\ aux.input = <<BoxSH(0, 1, 0, 1), BoxSH(2, 3, 0, 2)>>
    /\ ~Failed(hull)
    /\ \E k \in DOMAIN hull.ineq : hull.ineq[k] = <<2, 1, -2>>
    /\ \A m \in DOMAIN aux.input : SubsetOf(aux.input[m], hull)

\* a hull of three members found by wrapping, with a facet of its own, that
\* SingleHull leaves as it is
C5_Witness ==
    /\ pc = "done"
    /\ ~Failed(hull)
    /\ Len(aux.input) = 3
    /\ aux.i > 1
    /\ Len(hull.ineq) >= 5
    /\ Len(SingleHullAnew(hull).ineq) = Len(hull.ineq)
    /\ Len(SingleHullAnew(hull).eq) = 0

C8_Witness ==
    /\ pc = "done"
    /\ ~Failed(hull)
    /\ aux.modulo
    /\ aux.in_dim = 2
    /\ Cardinality(NonEmptyMembers(aux.input)) >= 2
    /\ Len(aux.affine_hull.eq) = 1
    /\ Len(hull.eq) = 1
    /\ Len(hull.ineq) = 2


(***************************************************************************)
(* BoundedHull: isl_set_bounded_simple_hull.  The call of                  *)
(* isl_set_simple_hull is the run of SimpleHull above; then the loop over  *)
(* the set dimensions, one step per dimension.  There are no parameters    *)
(* (nparam = 0): dimension i (C index) is the TLA+ column i + 2.  aux      *)
(* holds the counter i of the loop, the hull isl_set_simple_hull returned  *)
(* (simple), the dimensions the loop has found without bounds (lacking),   *)
(* the flag removed_divs, the number of calls of isl_set_remove_divs       *)
(* (rm_calls) and which of set and hull have been released (released).     *)
(***************************************************************************)
\* first is the C index of the first dimension eliminated
isl_set_eliminate_dims(S, first, n) ==
    [m \in DOMAIN S |-> isl_basic_set_eliminate_vars(S[m], first + 2, n)]

set_bounds(S, i, dim) ==
    isl_set_convex_hull(
        isl_set_eliminate_dims(isl_set_eliminate_dims(S, i + 1, dim - (i + 1)), 0, i), dim)

\* an equality with dimension i and no later dimension
EqBounds(h, i) ==
    \E j \in DOMAIN h.eq :
        /\ h.eq[j][i + 2] # 0
        /\ \A k \in (i + 3)..Len(h.eq[j]) : h.eq[j][k] = 0

\* the inequalities with dimension i and no other dimension
OnlyDim(h, i) ==
    {j \in DOMAIN h.ineq :
        /\ h.ineq[j][i + 2] # 0
        /\ \A k \in 2..Len(h.ineq[j]) : k = i + 2 \/ h.ineq[j][k] = 0}

HasLower(h, i) == \E j \in OnlyDim(h, i) : h.ineq[j][i + 2] > 0

HasUpper(h, i) == \E j \in OnlyDim(h, i) : h.ineq[j][i + 2] < 0

\* NeedsBounds that is content with a bound on one side
NeedsBounds_Mut(h, i) == ~EqBounds(h, i) /\ ~(HasLower(h, i) \/ HasUpper(h, i))

\* the loop body reaches the call of set_bounds
NeedsBounds(h, i) == ~EqBounds(h, i) /\ ~(HasLower(h, i) /\ HasUpper(h, i))

BoundedIdle(a, h) ==
    [dim |-> a.dim, i |-> 0, simple |-> h, lacking |-> {}, removed_divs |-> 0, rm_calls |-> 0,
     released |-> {}]

\* isl_set_simple_hull has returned
bounded_begin ==
    /\ pc = "done"
    /\ aux' = BoundedIdle(aux, hull)
    /\ pc' = "bounds"
    /\ UNCHANGED <<set, hull>>

\* the hull is intersected with the bounds; without bounds (the convex hull
\* has gone through the null pointer) the program ends or the error is
\* returned: isl_basic_set_intersect has released hull and the error label
\* releases set
BoundedIntersect(bounds, a) ==
    IF Failed(bounds)
    THEN /\ hull' = NULL
         /\ \E p \in {"crash", "failed"} :
               /\ pc' = p
               /\ aux' = [a EXCEPT !.lacking = @ \cup {a.i},
                                   !.released = IF p = "failed" THEN {"set", "hull"} ELSE @]
    ELSE /\ hull' = isl_basic_set_intersect(hull, bounds)
         /\ aux' = [a EXCEPT !.i = @ + 1, !.lacking = @ \cup {a.i}]
         /\ UNCHANGED pc

\* isl_set_remove_divs is called while removed_divs is 0; it returns the set
\* (ok) or releases it and returns NULL, and then the error label returns
\* NULL with hull as it is
RemoveDivs(ok) ==
    IF aux.removed_divs # 0
    THEN ok /\ BoundedIntersect(set_bounds(set, aux.i, aux.dim), aux)
    ELSE IF ok
    THEN BoundedIntersect(set_bounds(set, aux.i, aux.dim),
                          [aux EXCEPT !.removed_divs = 1, !.rm_calls = @ + 1])
    ELSE /\ hull' = NULL
         /\ pc' = "failed"
         /\ aux' = [aux EXCEPT !.rm_calls = @ + 1, !.released = {"set"}]

\* one round of the loop over the dimensions
bounded_dim ==
    /\ pc = "bounds"
    /\ aux.i < aux.dim
    /\ IF NeedsBounds(hull, aux.i)
       THEN \E ok \in BOOLEAN : RemoveDivs(ok)
       ELSE /\ aux' = [aux EXCEPT !.i = @ + 1]
            /\ UNCHANGED <<pc, hull>>
    /\ UNCHANGED set

bounded_end ==
    /\ pc = "bounds"
    /\ aux.i = aux.dim
    /\ pc' = "returned"
    /\ aux' = [aux EXCEPT !.released = {"set"}]
    /\ UNCHANGED <<set, hull>>

NextBoundedHull ==
    \/ NextSimpleHull
    \/ bounded_begin
    \/ bounded_dim
    \/ bounded_end

SpecBoundedHull == InitSimpleHull /\ [][NextBoundedHull]_vars

\* the row that is coordinate i, or minus it
UnitRow(i, dim, s) == [k \in 1..(1 + dim) |-> IF k = i + 2 THEN s ELSE 0]

\* dimension i has no lower (s = 1) or upper (s = -1) bound on S
UnboundedIn(S, i, dim, s) ==
    \E m \in DOMAIN S : isl_solve_lp(S[m], UnitRow(i, dim, s)).res = "unbounded"

\* an equality with dimension i alone
EqOnlyDim(h, i) ==
    \E j \in DOMAIN h.eq :
        /\ h.eq[j][i + 2] # 0
        /\ \A k \in 2..Len(h.eq[j]) : k = i + 2 \/ h.eq[j][k] = 0

\* bounded_simple_hull has returned a polyhedron that holds a point
BoundedReturned == pc = "returned" /\ ~Failed(hull) /\ ~hull.empty

\* C9: in the result every dimension has an equality with it and no later
\* dimension, or on each side a bound with it alone unless S has no bound on
\* that side; the result is bounded in a dimension on every side S is; and
\* every dimension found without bounds, in the simple hull or later, has
\* been intersected with the convex hull of S projected onto it
C9_BoundedTight ==
    BoundedReturned =>
        /\ \A i \in 0..(aux.dim - 1) :
              \/ EqBounds(hull, i)
              \/ /\ HasLower(hull, i) \/ UnboundedIn(set, i, aux.dim, 1)
                 /\ HasUpper(hull, i) \/ UnboundedIn(set, i, aux.dim, -1)
        /\ \A i \in 0..(aux.dim - 1) : \A s \in {-1, 1} :
              UnboundedIn(<<hull>>, i, aux.dim, s) => UnboundedIn(set, i, aux.dim, s)
        /\ \A i \in aux.lacking : SubsetOf(hull, set_bounds(set, i, aux.dim))
        /\ \A i \in 0..(aux.dim - 1) : NeedsBounds(aux.simple, i) => i \in aux.lacking

\* a union on the line y = x: the first dimension was found without bounds
\* and has them now, the second has the equality with both dimensions
C9_Witness ==
    /\ BoundedReturned
    /\ Len(set) >= 1
    /\ aux.lacking = {0}
    /\ HasLower(hull, 0) /\ HasUpper(hull, 0)
    /\ EqBounds(hull, 1) /\ ~EqOnlyDim(hull, 1)
    /\ ~HasLower(hull, 1) /\ ~HasUpper(hull, 1)

\* C9 as stated: in the result every dimension has on each side a bound with
\* it alone, unless S has no bound on that side
C9_AsStated ==
    BoundedReturned =>
        \A i \in 0..(aux.dim - 1) :
            \/ EqOnlyDim(hull, i)
            \/ /\ HasLower(hull, i) \/ UnboundedIn(set, i, aux.dim, 1)
               /\ HasUpper(hull, i) \/ UnboundedIn(set, i, aux.dim, -1)


\* the run has taken the wrapping path (uset_convex_hull_wrap sets the
\* counter of extend)
Wrapping == aux.i >= 1

\* C11: on the wrapping path extend is never entered with an absent hull,
\* and a failure ends with the absent result returned, never with the
\* program ended by the use of a null pointer
C11_WrapFailureAbsent ==
    /\ (pc = "extend" /\ aux.i = 1) => hull # NULL
    /\ (Wrapping /\ Ended /\ Failed(hull)) => (pc = "done" /\ hull = NULL)


(***************************************************************************)
(* ElimHull: isl_map_convex_hull on unions of unbounded members of the     *)
(* plane without equalities.  These calls take the steps of ConvexHull     *)
(* that lead through uset_convex_hull_elim; the other steps are never      *)
(* enabled on them.                                                        *)
(***************************************************************************)
HalfPlanes ==
    {BSet(<<>>, <<<<0, 1, 0>>>>),
     BSet(<<>>, <<<<0, 0, 1>>>>),
     BSet(<<>>, <<<<0, -1, 0>>>>),
     BSet(<<>>, <<<<-1, 0, 1>>>>),
     BSet(<<>>, <<<<0, 1, 1>>>>),
     BSet(<<>>, <<<<0, 1, 0>>, <<0, 0, 1>>>>),
     BSet(<<>>, <<<<-1, 1, 0>>, <<-1, 0, 1>>>>),
     BSet(<<>>, <<<<0, 0, 1>>, <<1, 0, -1>>>>)}

InitElimHull ==
    /\ pc = "start"
    /\ aux \in {ConvexIdle(2, S) : S \in SeqsUpTo(HalfPlanes, MaxMembersCH)}
    /\ set = aux.input
    /\ hull = NULL

NextElimHull ==
    \/ convex_hull_begin
    \/ uset_convex_hull_begin
    \/ uset_single
    \/ elim_begin
    \/ elim_pair
    \/ convex_hull_end

SpecElimHull == InitElimHull /\ [][NextElimHull]_vars

\* no step of ConvexHull left out of ElimHull is ever enabled
ElimHullClosed ==
    /\ pc \in {"start", "affine", "dispatch", "elim", "final", "done"}
    /\ pc = "affine" => Len(aux.affine_hull.eq) = 0
    /\ pc = "dispatch" => (Len(set) = 1 \/ ~isl_set_is_bounded(set, aux.dim))
    /\ pc = "final" => hull # NULL

\* the point (x, y) satisfies the constraints of h
Contains(h, x, y) ==
    /\ ~h.empty
    /\ \A k \in DOMAIN h.ineq : h.ineq[k][1] + h.ineq[k][2] * x + h.ineq[k][3] * y >= 0
    /\ \A k \in DOMAIN h.eq : h.eq[k][1] + h.eq[k][2] * x + h.eq[k][3] * y = 0

\* the union {x >= 0} u {y >= 0}
HalfPlanesXY == <<BSet(<<>>, <<<<0, 1, 0>>>>), BSet(<<>>, <<<<0, 0, 1>>>>)>>

\* the call on {x >= 0} u {y >= 0} goes to uset_convex_hull_elim
RoutedToElim ==
    (aux.input = HalfPlanesXY /\ pc = "dispatch") =>
        (Len(set) = 2 /\ aux.dim = 2 /\ ~isl_set_is_bounded(set, aux.dim))

\* C12: the hull of {x >= 0} u {y >= 0} is found by uset_convex_hull_elim and
\* is the whole plane: it contains (-1, 2), (2, -1) and also (-1, -1), the
\* point half way between (0, -2) and (-2, 0)
C12_ElimHullPlane ==
    /\ RoutedToElim
    /\ (aux.input = HalfPlanesXY /\ pc \in {"final", "done", "crash"}) =>
          /\ ~Failed(hull)
          /\ Contains(hull, -1, 2) /\ Contains(hull, 2, -1) /\ Contains(hull, -1, -1)
          /\ hull.eq = <<>> /\ hull.ineq = <<>>

\* C12 as stated: the hull of {x >= 0} u {y >= 0} contains (-1, 2) and
\* (2, -1) and does not contain (-1, -1)
C12_AsStated ==
    /\ RoutedToElim
    /\ (aux.input = HalfPlanesXY /\ pc \in {"final", "done", "crash"}) =>
          /\ ~Failed(hull)
          /\ Contains(hull, -1, 2) /\ Contains(hull, 2, -1) /\ ~Contains(hull, -1, -1)

\* the call on {x >= 0} u {y >= 0} has returned from uset_convex_hull_elim
C12_Witness ==
    /\ pc = "done"
    /\ aux.input = HalfPlanesXY
    /\ Len(set) = 0
    /\ ~Failed(hull)
    /\ Contains(hull, -1, -1)


(***************************************************************************)
(* BoundSearch: uset_is_bound, one step per member of the loop.  aux holds *)
(* the form c, the form as it was on entry (entry), the flag first, the    *)
(* counter j of the loop (from 1) and the value returned (ret).  A member  *)
(* the solver finds empty is flagged empty in the set.                     *)
(***************************************************************************)
MaxMembersIB == 3

MembersIB ==
    {BoxSH(0, 1, 0, 1),
     BSet(<<>>, <<<<-1, 2, 0>>, <<3, -2, 0>>, <<0, 0, 1>>, <<1, 0, -1>>>>),
     BSet(<<>>, <<<<-1, 3, 0>>, <<-2, 0, 3>>, <<2, -1, -1>>>>),
     BSet(<<>>, <<<<0, 1, 0>>>>),
     isl_basic_set_empty,
     BSet(<<>>, <<<<-1, 1, 0>>, <<0, -1, 0>>, <<0, 0, 1>>, <<1, 0, -1>>>>)}

FormsIB == {<<0, 1, 0>>, <<0, -1, 0>>, <<0, 0, 1>>, <<3, 1, 1>>, <<-1, 1, -1>>, <<0, 2, 1>>}

IsBoundIdle(c) == [c |-> c, entry |-> c, first |-> TRUE, ret |-> 1, j |-> 1]

InitIsBound ==
    /\ pc = "bound"
    /\ set \in {S \in SeqsUpTo(MembersIB, MaxMembersIB) : NonEmptyMembers(S) # {}}
    /\ aux \in {IsBoundIdle(c) : c \in FormsIB}
    /\ hull = NULL

\* the loop body after the answer r of isl_solve_lp on member j
IsBoundStep(r) ==
    IF r.res = "unbounded"
    THEN /\ aux' = [aux EXCEPT !.ret = 0]
         /\ pc' = "bound_end"
         /\ UNCHANGED set
    ELSE IF r.res = "empty"
    THEN /\ set' = [set EXCEPT ![aux.j] = isl_basic_set_empty]
         /\ aux' = [aux EXCEPT !.j = @ + 1]
         /\ UNCHANGED pc
    ELSE /\ aux' = [aux EXCEPT !.c = ShiftBy(ScaleBy(aux.c, r.d), aux.first, r.n),
                               !.first = FALSE, !.j = @ + 1]
         /\ UNCHANGED <<pc, set>>

\* one round of the loop over the members
is_bound_member ==
    /\ pc = "bound"
    /\ aux.j <= Len(set)
    /\ IF set[aux.j].empty
       THEN /\ aux' = [aux EXCEPT !.j = @ + 1]
            /\ UNCHANGED <<pc, set>>
       ELSE IsBoundStep(isl_solve_lp(set[aux.j], aux.c))
    /\ UNCHANGED hull

\* the loop is over: j >= set->n is returned
is_bound_end ==
    /\ pc = "bound"
    /\ aux.j > Len(set)
    /\ pc' = "bound_end"
    /\ UNCHANGED <<set, hull, aux>>

NextIsBound ==
    \/ is_bound_member
    \/ is_bound_end

SpecIsBound == InitIsBound /\ [][NextIsBound]_vars

\* the step by step run and the function agree
IsBoundAgrees ==
    pc = "bound_end" =>
        /\ aux.ret = uset_is_bound(set, aux.entry).ret
        /\ aux.ret = 1 => aux.c = uset_is_bound(set, aux.entry).c

\* the linear part of c is k times that of e, k > 0
PositiveMultiple(c, e) ==
    \E k \in 1..(Abs(c[2]) + Abs(c[3]) + 1) : Lin(c) = Lin(isl_seq_scale(e, k))

\* the minimum of c over b is exactly 0
TightOn(c, b) == isl_solve_lp(b, c) = LPOk(<<0, 1>>)

\* C13: uset_is_bound returns 1 with c a positive multiple of the form on
\* entry in its linear part, not negative on any member that holds a point
\* and with minimum 0 on one of them; it returns 0 iff the form on entry is
\* unbounded below on a member that holds a point
C13_BoundSearchPost ==
    pc = "bound_end" =>
        /\ aux.ret = 1 =>
              /\ PositiveMultiple(aux.c, aux.entry)
              /\ \A m \in NonEmptyMembers(set) : HoldsOn(aux.c, set[m])
              /\ \E m \in NonEmptyMembers(set) : TightOn(aux.c, set[m])
        /\ (aux.ret = 0) =
              (\E m \in NonEmptyMembers(set) : isl_solve_lp(set[m], aux.entry).res = "unbounded")

\* c was rescaled by the denominator of a fractional optimum, after a
\* leading member without a point
C13_Witness ==
    /\ pc = "bound_end"
    /\ aux.ret = 1
    /\ IsEmptyBSet(set[1])
    /\ Cardinality(NonEmptyMembers(set)) >= 2
    /\ Lin(aux.c) # Lin(aux.entry)
    /\ \E m \in NonEmptyMembers(set) : TightOn(aux.c, set[m])

(***************************************************************************)
(* independent_bounds, one call of is_independent_bound at a time, on      *)
(* bounded unions of the plane.  aux holds the matrix dirs, the index k of *)
(* the next candidate, and of the last call its answer f, its candidate c  *)
(* and the rows prev that dirs held before it.                             *)
(***************************************************************************)
MaxMembersDB == 2

MembersDB ==
    {BoxSH(0, 1, 0, 1),
     BSet(<<>>, <<<<0, 0, 1>>, <<2, 0, -1>>, <<0, 1, 0>>, <<2, -1, 0>>>>),
     BSet(<<>>, <<<<2, -1, -1>>, <<0, 1, 0>>, <<0, 0, 1>>>>),
     BSet(<<>>, <<<<0, 2, 4>>, <<6, -1, -2>>, <<0, 1, -1>>, <<3, -1, 1>>>>),
     BSet(<<<<-1, 1, 0>>, <<-1, 0, 1>>>>, <<>>),
     BSet(<<<<0, 1, -1>>>>, <<<<0, 1, 0>>, <<1, -1, 0>>>>),
     BSet(<<>>, <<<<1, 0, 0>>, <<0, 1, 0>>, <<1, -1, 0>>, <<0, 0, 1>>, <<1, 0, -1>>>>)}

IndepIdle == [dirs |-> <<>>, k |-> 1, f |-> 0, c |-> <<>>, prev |-> <<>>]

InitIndep ==
    /\ pc = "indep"
    /\ set \in SeqsUpTo(MembersDB, MaxMembersDB)
    /\ aux = IndepIdle
    /\ hull = NULL

IndepCall(c, r) == [dirs |-> r.dirs, k |-> aux.k + 1, f |-> r.f, c |-> c, prev |-> aux.dirs]

\* one turn of the loops of independent_bounds
indep_call ==
    /\ pc = "indep"
    /\ Len(aux.dirs) < 2
    /\ aux.k <= Len(BoundCands(set))
    /\ aux' = IndepCall(BoundCands(set)[aux.k], is_independent_bound(set, BoundCands(set)[aux.k], aux.dirs))
    /\ UNCHANGED <<pc, set, hull>>

\* the loops are over: dirs is returned with n rows
indep_end ==
    /\ pc = "indep"
    /\ IF Len(aux.dirs) < 2 THEN aux.k > Len(BoundCands(set)) ELSE TRUE
    /\ pc' = "indep_end"
    /\ UNCHANGED <<set, hull, aux>>

NextIndep == indep_call \/ indep_end

SpecIndep == InitIndep /\ [][NextIndep]_vars

\* the machine agrees with independent_bounds
IndepAgrees == pc = "indep_end" => aux.dirs = independent_bounds(set, 2)

\* the rank of the linear parts of rows of the plane
Rank(rows) ==
    IF \E i, j \in DOMAIN rows : Det(rows[i], rows[j]) # 0 THEN 2
    ELSE IF \E i \in DOMAIN rows : ~IsZeroSeq(Lin(rows[i])) THEN 1
    ELSE 0

InSpan(c, rows) == Rank(Append(rows, c)) = Rank(rows)

Called == aux.k > 1

C15_PivotsIncrease ==
    /\ \A i, j \in DOMAIN aux.dirs : i < j => FirstNZ(aux.dirs[i]) < FirstNZ(aux.dirs[j])
    /\ (Called /\ aux.f = 1) =>
          \E i \in DOMAIN aux.dirs :
              /\ aux.prev = RemoveAt(aux.dirs, i)
              /\ PositiveMultiple(aux.dirs[i], IndepLoop(<<0>> \o Lin(aux.c), aux.prev, 1).row)

\* a row was accepted and put before the row accepted earlier
C15_Witness ==
    /\ Called
    /\ aux.f = 1
    /\ Len(aux.dirs) = 2
    /\ aux.prev = <<aux.dirs[2]>>
    /\ FirstNZ(aux.dirs[1]) = 0
    /\ FirstNZ(aux.dirs[2]) = 1

(***************************************************************************)
(* wrap_facet on its own: the union S, the rows facet and ridge of the     *)
(* caller, the answer of the solver and what is returned.  The function    *)
(* works on a copy of S (isl_set_copy, then the copy-on-write of           *)
(* isl_set_preimage) and reads ridge only.                                 *)
(***************************************************************************)
MaxMembersWF == 2

MembersWF ==
    {BoxSH(0, 1, 0, 1), BoxSH(2, 3, 0, 2),
     BSet(<<>>, <<<<0, 1, 0>>, <<0, 0, 1>>, <<2, -1, -1>>>>),
     BSet(<<<<-1, 1, 0>>, <<-1, 0, 1>>>>, <<>>),
     BSet(<<<<0, 0, 1>>>>, <<<<0, 1, 0>>, <<2, -1, 0>>>>),
     isl_basic_set_empty}

FormsWF == {<<0, 0, 1>>, <<0, 1, 0>>, <<2, -1, -1>>, <<-1, 1, 0>>, <<3, -1, 0>>, <<1, 0, -2>>}

WrapIdle(F, R) == [facet |-> F, ridge |-> R, entry |-> F, res |-> LPEmpty, ret |-> "none"]

InitWrap ==
    /\ pc = "wrap_facet"
    /\ set \in SeqsUpTo(MembersWF, MaxMembersWF)
    /\ aux \in {WrapIdle(w[1], w[2]) : w \in {w \in FormsWF \X FormsWF : Det(w[1], w[2]) # 0}}
    /\ hull = NULL

WrapSolved(r, f) == [aux EXCEPT !.res = r, !.facet = IF f = <<>> THEN @ ELSE f]

\* the linear program is solved and facet combined with ridge on isl_lp_ok
wrap_solve ==
    /\ pc = "wrap_facet"
    /\ pc' = "wrap_solved"
    /\ aux' = WrapSolved(WrapLP(WrapGens(set, aux.facet, aux.ridge)), wrap_facet(set, aux.facet, aux.ridge))
    /\ UNCHANGED <<set, hull>>

\* the copy is released, the assertion on the result decides what is returned
wrap_return ==
    /\ pc = "wrap_solved"
    /\ pc' = "wrap_end"
    /\ aux' = [aux EXCEPT !.ret = IF aux.res.res \in {"ok", "unbounded"} THEN "facet" ELSE "null"]
    /\ UNCHANGED <<set, hull>>

NextWrap == wrap_solve \/ wrap_return

SpecWrap == InitWrap /\ [][NextWrap]_vars

WrapUnboundedSeen == pc = "wrap_end" /\ aux.res.res = "unbounded" /\ aux.ret = "facet"

WrapEmptySeen == pc = "wrap_end" /\ aux.res.res = "empty" /\ aux.ret = "null" /\ ~IsEmptyBSet(set[1])

(***************************************************************************)
(* common_constraints, one member of the union at a time.  aux holds the   *)
(* table of max_constraint entries (in: still in the hash table), best,    *)
(* the member s looked at next, the number n of members done and, of the   *)
(* last member done, the table before it (prev) and its index (last).      *)
(***************************************************************************)
MaxMembersPH == 3

MembersPH ==
    {BoxSH(0, 1, 0, 1), BoxSH(0, 3, 0, 2), BoxSH(-1, 1, -1, 1),
     BSet(<<>>, <<<<0, 1, 0>>, <<0, 0, 1>>, <<2, -1, -1>>>>),
     BSet(<<<<0, 0, 1>>>>, <<<<0, 1, 0>>, <<2, -1, 0>>>>),
     BSet(<<<<-1, 0, 1>>>>, <<<<1, 1, 0>>, <<1, -1, 0>>>>),
     BSet(<<<<-1, 1, 0>>, <<-1, 0, 1>>>>, <<>>)}

ProtoIdle == [table |-> <<>>, best |-> 0, s |-> 1, n |-> 0, prev |-> <<>>, last |-> 0]

InitProto ==
    /\ pc = "proto"
    /\ set \in {isl_set_normalize(S) : S \in {S \in SeqsUpTo(MembersPH, MaxMembersPH) : Len(S) >= 2}}
    /\ aux = ProtoIdle
    /\ hull = BSet(<<>>, <<>>)

\* no member without equalities: hull is returned as it is
proto_none ==
    /\ pc = "proto"
    /\ EqFree(set) = {}
    /\ pc' = "proto_end"
    /\ UNCHANGED <<set, hull, aux>>

\* the table is filled with the inequalities of the best member
proto_best ==
    /\ pc = "proto"
    /\ EqFree(set) # {}
    /\ pc' = "proto_loop"
    /\ aux' = [aux EXCEPT !.best = BestMember(set), !.table = MaxConstraints(set[BestMember(set)])]
    /\ UNCHANGED <<set, hull>>

ProtoMember(t) ==
    [aux EXCEPT !.table = t, !.prev = aux.table, !.last = aux.s, !.s = @ + 1, !.n = @ + 1]

\* one turn of the loop over the members
proto_member ==
    /\ pc = "proto_loop"
    /\ aux.s <= Len(set)
    /\ aux' = IF aux.s = aux.best THEN [aux EXCEPT !.s = @ + 1]
              ELSE ProtoMember(UpdateMember(aux.table, set[aux.s], aux.n))
    /\ set' = IF aux.s = aux.best THEN set ELSE [set EXCEPT ![aux.s] = BothSigns(@)]
    /\ UNCHANGED <<pc, hull>>

\* the entries met in every member and marked as inequality are emitted
proto_emit ==
    /\ pc = "proto_loop"
    /\ aux.s > Len(set)
    /\ pc' = "proto_end"
    /\ hull' = CommonFrom(hull, set, aux.table, aux.n).hull
    /\ UNCHANGED <<set, aux>>

NextProto == proto_none \/ proto_best \/ proto_member \/ proto_emit

SpecProto == InitProto /\ [][NextProto]_vars

ProtoAgrees == pc = "proto_end" => hull = proto_hull(set).hull

\* the constraints of member b that have the linear part of row
Matching(b, row) ==
    {r \in SeqToSet(EqBothSigns(b.eq) \o b.ineq) : isl_seq_eq(Lin(r), Lin(row))}

Others == DOMAIN set \ {aux.best}

MatchedByAll(row) == \A s \in Others : Matching(set[s], row) # {}

MaxConstant(row) ==
    CHOOSE m \in {r[1] : r \in {row} \cup UNION {Matching(set[s], row) : s \in Others}} :
        \A r \in {row} \cup UNION {Matching(set[s], row) : s \in Others} : r[1] <= m

Weakest(row) == [row EXCEPT ![1] = MaxConstant(row)]

\* C17: the inequalities emitted are those of the best member that every
\* other member matches with a constraint of the same linear part and whose
\* entry is marked as inequality, each with the largest of the constants
\* of the matching constraints and its own; the count of an entry never
\* exceeds the number of members done
C17_EmitsCommonMax ==
    /\ \A k \in DOMAIN aux.table : aux.table[k].count <= aux.n
    /\ (pc = "proto_end" /\ aux.best # 0) =>
          SeqToSet(hull.ineq) =
              {Weakest(set[aux.best].ineq[k]) :
                  k \in {k \in DOMAIN aux.table : aux.table[k].ineq /\ MatchedByAll(set[aux.best].ineq[k])}}

\* an inequality is emitted with a constant larger than in the best member
\* and another entry is left out because a member does not match it
C17_Witness ==
    /\ pc = "proto_end"
    /\ aux.n >= 2
    /\ \E k \in DOMAIN aux.table :
          /\ aux.table[k].ineq
          /\ MatchedByAll(set[aux.best].ineq[k])
          /\ MaxConstant(set[aux.best].ineq[k]) > set[aux.best].ineq[k][1]
    /\ \E k \in DOMAIN aux.table : ~MatchedByAll(set[aux.best].ineq[k])

\* member aux.last has an equality and an inequality of it matches entry k,
\* which every member before has matched
MatchedByEqMember(k) ==
    /\ aux.last # 0
    /\ Len(set[aux.last].eq) >= 1
    /\ aux.prev[k].in
    /\ aux.prev[k].count >= aux.n - 1
    /\ \E i \in DOMAIN set[aux.last].ineq : isl_seq_eq(Lin(set[aux.last].ineq[i]), Lin(aux.prev[k].c))

ConstantOfLast(k) ==
    (CHOOSE r \in SeqToSet(set[aux.last].ineq) : isl_seq_eq(Lin(r), Lin(aux.prev[k].c)))[1]

ProtoKeptSeen ==
    /\ pc = "proto_loop"
    /\ \E k \in DOMAIN aux.prev :
          MatchedByEqMember(k) /\ aux.table[k].ineq /\ aux.prev[k].c[1] = ConstantOfLast(k)

(***************************************************************************)
(* isl_basic_map_constraint_is_redundant on a basic set B of the plane and *)
(* a constraint c.  set holds B alone (the caller's *bmap), aux the        *)
(* constraint, B on entry, whether the linear program was solved and with  *)
(* what answer, and the value returned.                                    *)
(***************************************************************************)
MembersRD ==
    {BoxSH(0, 1, 0, 1), BoxSH(-1, 2, 0, 3),
     BSet(<<>>, <<>>),
     BSet(<<>>, <<<<0, 1, 0>>>>),
     BSet(<<>>, <<<<0, 1, 0>>, <<0, 0, 1>>>>),
     BSet(<<>>, <<<<0, 1, 0>>, <<1, -1, 0>>>>),
     BSet(<<>>, <<<<2, -1, -1>>, <<0, 1, -1>>>>),
     BSet(<<<<0, 1, 0>>>>, <<>>),
     BSet(<<<<0, 0, 1>>>>, <<<<0, 1, 0>>>>),
     BSet(<<<<0, 1, -1>>>>, <<<<0, 0, 1>>, <<2, 0, -1>>>>),
     BSet(<<<<-1, 1, 0>>, <<-1, 0, 1>>>>, <<>>),
     BSet(<<>>, <<<<-1, 1, 0>>, <<0, -1, 0>>>>),
     isl_basic_set_empty}

FormsRD ==
    {<<0, 1, 0>>, <<1, 1, 0>>, <<-1, 1, 0>>, <<0, -1, 0>>, <<2, -1, 0>>,
     <<0, 0, 1>>, <<3, 0, -1>>, <<0, 1, 1>>, <<1, 1, -1>>, <<1, 0, 0>>}

RedundantIdle(b, c) == [c |-> c, entry |-> b, solved |-> FALSE, res |-> LPEmpty, ret |-> 0]

InitRedundant ==
    /\ pc = "redundant"
    /\ \E b \in MembersRD, c \in FormsRD : set = <<b>> /\ aux = RedundantIdle(b, c)
    /\ hull = NULL

\* the loop over the variables stops at one where c has a coefficient whose
\* sign no inequality of b has
NoSameSign(b, c) ==
    \E i \in 2..Len(c) : c[i] # 0 /\ \A j \in DOMAIN b.ineq : Sgn(b.ineq[j][i]) # Sgn(c[i])

\* the value returned after the linear program
RedundantLP(r) == IF r.res = "ok" /\ r.n >= 0 THEN 1 ELSE 0

isl_basic_map_constraint_is_redundant(b, c) ==
    IF NoSameSign(b, c) THEN 0 ELSE RedundantLP(isl_solve_lp(b, c))

\* 0 is returned without a linear program
redundant_sign ==
    /\ pc = "redundant"
    /\ NoSameSign(set[1], aux.c)
    /\ pc' = "redundant_end"
    /\ aux' = [aux EXCEPT !.ret = isl_basic_map_constraint_is_redundant(set[1], aux.c)]
    /\ UNCHANGED <<set, hull>>

RedundantSolved(r) == [aux EXCEPT !.solved = TRUE, !.res = r, !.ret = RedundantLP(r)]

\* the linear program is solved; on isl_lp_empty *bmap is set to empty
redundant_lp ==
    /\ pc = "redundant"
    /\ ~NoSameSign(set[1], aux.c)
    /\ pc' = "redundant_end"
    /\ aux' = RedundantSolved(isl_solve_lp(set[1], aux.c))
    /\ set' = IF aux'.res.res = "empty" THEN <<isl_basic_set_empty>> ELSE set
    /\ UNCHANGED hull

NextRedundant == redundant_sign \/ redundant_lp

SpecRedundant == InitRedundant /\ [][NextRedundant]_vars

\* the minimum of c over b exists and is not negative
MinNonNeg(b, c) == isl_solve_lp(b, c).res = "ok" /\ isl_solve_lp(b, c).n >= 0

\* the minimum of c over b is negative or c is unbounded below on b
MinNegOrUnbounded(b, c) ==
    \/ isl_solve_lp(b, c).res = "unbounded"
    \/ isl_solve_lp(b, c).res = "ok" /\ isl_solve_lp(b, c).n < 0

\* C19: 1 is returned iff the minimum of c over B exists and is >= 0,
\* whether B has equalities or not; when 0 is returned without a linear
\* program the minimum is negative or c is unbounded below; an unbounded
\* program gives 0 and an empty one gives 0 with B marked empty
C19_RedundantIffMinNonNeg ==
    pc = "redundant_end" =>
        /\ (aux.ret = 1) = MinNonNeg(aux.entry, aux.c)
        /\ ~aux.solved => MinNegOrUnbounded(aux.entry, aux.c)
        /\ (aux.solved /\ aux.res.res = "unbounded") => aux.ret = 0
        /\ (aux.solved /\ aux.res.res = "empty") => (aux.ret = 0 /\ set[1].empty)

\* the same for a B without equalities that holds a point
RedundantIfNoEq ==
    (pc = "redundant_end" /\ Len(aux.entry.eq) = 0 /\ ~IsEmptyBSet(aux.entry)) =>
        /\ (aux.ret = 1) = MinNonNeg(aux.entry, aux.c)
        /\ ~aux.solved => MinNegOrUnbounded(aux.entry, aux.c)

\* whatever B is, the answer 1 is right and the effects of the answers of
\* the solver are as described
RedundantSound ==
    pc = "redundant_end" =>
        /\ aux.ret = 1 => MinNonNeg(aux.entry, aux.c)
        /\ aux.solved => (aux.ret = 1) = MinNonNeg(aux.entry, aux.c)
        /\ (aux.solved /\ aux.res.res = "empty") => (aux.ret = 0 /\ set[1].empty)
        /\ ~(aux.solved /\ aux.res.res = "empty") => set[1] = aux.entry

(***************************************************************************)
(* The order of the tests of uset_convex_hull, read off the steps of the   *)
(* machine of isl_map_convex_hull.                                         *)
(***************************************************************************)
\* uset_convex_hull is entered by this step
UsetEntered == pc \in {"uset", "affine"} /\ pc' \in {"dispatch", "post", "final"}

EveryMemberBounded == \A i \in DOMAIN set : isl_basic_set_is_bounded(set[i], aux.dim)

WrapRun == aux.i = 0 /\ aux'.i = 1

ElimRun == pc' = "elim"

\* what the step from the dispatch does when the boundedness test is reached
BoundednessDecides ==
    /\ aux.dim >= 2
    /\ WrapRun = EveryMemberBounded
    /\ ElimRun = ~EveryMemberBounded

\* the step from the dispatch: single member, then dimension 1, then the
\* boundedness test
DispatchStep(members) ==
    IF Len(set) = 1 THEN hull' = set[1] /\ pc' = Ret(aux) /\ ~WrapRun
    ELSE IF aux.dim = 1 THEN hull' = convex_hull_1d(set) /\ pc' = Ret(aux) /\ ~WrapRun
    ELSE Len(set) >= members /\ BoundednessDecides

\* dimension 0 is decided before the union is normalised
EntryStep ==
    IF aux.dim = 0 THEN hull' = convex_hull_0d(set) /\ pc' = Ret(aux) /\ set' = set
    ELSE pc' = "dispatch" /\ set' = isl_set_normalize(set)

\* C20: uset_convex_hull decides dimension 0 first, then normalises, then
\* takes the short cut of a single member, then dimension 1; only a union
\* of dimension >= 2 with at least two members reaches the boundedness
\* test, after which wrapping is run iff every member is bounded and the
\* Fourier-Motzkin hull iff some member is not
C20_DispatchOrder ==
    [][/\ UsetEntered => EntryStep
       /\ pc = "dispatch" => DispatchStep(2)]_vars

\* the same, with the boundedness test reached by unions of any number of
\* members but one
DispatchOrderButMembers ==
    [][/\ UsetEntered => EntryStep
       /\ pc = "dispatch" => DispatchStep(0)]_vars

(***************************************************************************)
(* The loop of extend in the machine of isl_map_convex_hull: aux.i is the  *)
(* index of the inequality of hull that is the facet of the next round.    *)
(* The rounds are counted against the facets of the convex hull.           *)
(***************************************************************************)
\* extend is in its loop with a hull and a union that has members
InExtend == pc = "extend" /\ Len(set) > 0 /\ ~Failed(hull)

\* the ridges of the facet of hull.ineq[i] and the inequalities of the face
\* of hull in the same hyperplane
RidgesOf(i) == FacetAt(compute_facet(set, hull.ineq[i], aux.dim), hull.ineq[i]).ineq

HullFacetOf(i) == FacetAt(hull, hull.ineq[i]).ineq

Fresh(ridges, known) ==
    SelectSeq(ridges, LAMBDA r : \A f \in DOMAIN known : r # known[f])

\* the rows of h2 after those of h1
Appended(h1, h2) == SubSeq(h2.ineq, Len(h1.ineq) + 1, Len(h2.ineq))

\* one round: the inequalities there were stay where they are, and one
\* wrapped row is appended for each ridge that the face of hull does not hold
RoundOf(ridges, fresh, added) ==
    /\ Len(added) = Len(fresh)
    /\ Len(added) <= Len(ridges)
    /\ \A j \in DOMAIN added : added[j] = wrap_facet(set, hull.ineq[aux.i], fresh[j])

ExtendRound ==
    /\ ~Failed(hull')
    /\ aux'.i = aux.i + 1
    /\ SubSeq(hull'.ineq, 1, Len(hull.ineq)) = hull.ineq
    /\ RoundOf(RidgesOf(aux.i), Fresh(RidgesOf(aux.i), HullFacetOf(aux.i)), Appended(hull, hull'))

\* the vertices of the members of the union, and the rows of the edges of
\* their convex hull: the lines through two vertices that have every
\* vertex on their non-negative side
VerticesOfUnion == UNION {Vertices(Cons(set[i])) : i \in DOMAIN set}

EdgeRows(V) ==
    {r \in UNION {{LineThrough(w[1], w[2]), isl_seq_neg(LineThrough(w[1], w[2]))} :
                     w \in {w \in V \X V : w[1] # w[2]}} :
        \A v \in V : EvalNum(r, v) >= 0}

\* the rows of hull are facets of the convex hull, each one once: the
\* number of rounds of the loop is at most the number of facets
FacetsOnce(rows, edges) ==
    /\ \A i \in DOMAIN rows : NormRow(rows[i]) \in edges
    /\ \A i, j \in DOMAIN rows : i # j => NormRow(rows[i]) # NormRow(rows[j])
    /\ Len(rows) <= Cardinality(edges)

\* C21: extend terminates, with every inequality of hull, those appended in
\* the loop too, taken as the facet of exactly one round: every round moves
\* on by one inequality and the inequalities are facets of the convex hull,
\* none of them twice, so that the rounds are at most as many as the hull
\* has facets; in the round of facet i a row is appended and wrapped for a
\* ridge iff the ridge is not equal to an inequality of the face of hull as
\* it was when the round began, so never more rows than the facet has ridges
C21_ExtendClosure ==
    [][/\ (InExtend /\ pc' = "extend") => ExtendRound
       /\ (InExtend /\ pc' # "extend") => aux.i = Len(hull.ineq) + 1
       /\ (pc = "wrap" /\ pc' = "extend") => aux'.i = 1
       /\ InExtend => aux.i \in 1..(Len(hull.ineq) + 1)
       /\ InExtend => FacetsOnce(hull.ineq, EdgeRows(VerticesOfUnion))]_vars

\* the loop is over after rounds that appended facets and rounds that met
\* known ridges only
C21_Witness ==
    /\ InExtend
    /\ Len(set) >= 2
    /\ Len(hull.ineq) >= 5
    /\ aux.i = Len(hull.ineq) + 1

\* no inequality stands twice in hull during the loop
ExtendNoDuplicate ==
    InExtend => \A i, j \in DOMAIN hull.ineq : i # j => hull.ineq[i] # hull.ineq[j]

(***************************************************************************)
(* initial_facet_constraint, one turn of its loop at a time, on bounded    *)
(* unions of the plane as uset_convex_hull_wrap gets them.  aux holds the  *)
(* matrix bounds, the number d of its rows on entry, the number iter of    *)
(* turns begun and, of the last call of wrap_facet, the rows the matrix    *)
(* had (wrapped).                                                          *)
(***************************************************************************)
MaxMembersIF == 3

MembersIF ==
    {BoxSH(0, 1, 0, 1), BoxSH(2, 3, 0, 2),
     BSet(<<>>, <<<<0, 1, 0>>, <<0, 0, 1>>, <<2, -1, -1>>>>),
     BSet(<<>>, <<<<1, -1, 0>>, <<1, 1, -2>>, <<1, 1, 2>>>>),
     BSet(<<>>, <<<<2, 1, 1>>, <<2, -1, 1>>, <<2, 1, -1>>, <<2, -1, -1>>>>),
     BSet(<<<<-1, 0, 1>>>>, <<<<0, 1, 0>>, <<2, -1, 0>>>>),
     BSet(<<<<-3, 1, 0>>, <<-1, 0, 1>>>>, <<>>)}

FacetIdle(b) == [bounds |-> b, d |-> Len(b), iter |-> 0, wrapped |-> <<>>]

InitFacet ==
    /\ pc = "facet"
    /\ set \in {S \in {isl_set_normalize(T) : T \in SeqsUpTo(MembersIF, MaxMembersIF)} :
                   /\ isl_set_is_bounded(S, 2)
                   /\ Len(isl_set_affine_hull(S, 2).eq) = 0
                   /\ Len(independent_bounds(S, 2)) = 2}
    /\ aux = FacetIdle(independent_bounds(set, 2))
    /\ hull = NULL

FaceOf(b) == isl_set_affine_hull(isl_set_add_equality(set, b[1]), 2)

\* the face of row 0 has one equality: row 0 is a facet and the loop stops
facet_break ==
    /\ pc = "facet"
    /\ Len(aux.bounds) > 1
    /\ Len(FaceOf(aux.bounds).eq) = 1
    /\ pc' = "facet_end"
    /\ aux' = [aux EXCEPT !.iter = @ + 1]
    /\ UNCHANGED <<set, hull>>

FacetWrapped(b, f) ==
    IF f = <<>> THEN [aux EXCEPT !.iter = @ + 1, !.wrapped = b, !.bounds = <<>>]
    ELSE [aux EXCEPT !.iter = @ + 1, !.wrapped = b, !.bounds = DropLast([b EXCEPT ![1] = f])]

FacetTurn(b) ==
    IF b = <<>> THEN aux' = [aux EXCEPT !.iter = @ + 1, !.bounds = <<>>] /\ pc' = "facet_error"
    ELSE /\ aux' = FacetWrapped(b, wrap_facet(set, b[1], Last(b)))
         /\ pc' = IF aux'.bounds = <<>> THEN "facet_error" ELSE "facet"

\* the bounds are moved into the face, zero rows are dropped from the end
\* and row 0 is wrapped around the last row, which is then dropped
facet_wrap ==
    /\ pc = "facet"
    /\ Len(aux.bounds) > 1
    /\ Len(FaceOf(aux.bounds).eq) # 1
    /\ FacetTurn(DropZeroRows(FaceProduct(aux.bounds, FaceOf(aux.bounds))))
    /\ UNCHANGED <<set, hull>>

\* one row is left: bounds is returned
facet_return ==
    /\ pc = "facet"
    /\ Len(aux.bounds) <= 1
    /\ pc' = "facet_end"
    /\ UNCHANGED <<set, hull, aux>>

NextFacet == facet_break \/ facet_wrap \/ facet_return

SpecFacet == InitFacet /\ [][NextFacet]_vars

FacetAgrees == pc = "facet_end" => aux.bounds = initial_facet_constraint(set, independent_bounds(set, 2), 2)

\* wrap_facet was called in this step
WrapCalled == aux'.wrapped # aux.wrapped

FacetBreakSeen == pc = "facet_end" /\ Len(aux.bounds) = 2 /\ aux.iter = 1

(***************************************************************************)
(* Errors of the bound check in uset_simple_hull.  aux.freed is set by the *)
(* step in which is_bound answers -1 and add_bound releases hull.          *)
(***************************************************************************)
\* a step that reads or writes the storage of hull: every step of add_bounds
\* and add_bound and the final isl_basic_set_convex_hull
UsesHull == pc' # "crash" /\ (pc' # "done" \/ hull' # NULL)

\* C23: once a bound check has failed while a candidate is examined, hull,
\* which add_bound has released, is not read, written or passed on any
\* more, and uset_simple_hull returns the absent result
C23_BoundErrorAbsent ==
    [][/\ aux.freed => ~UsesHull
       /\ (aux'.freed /\ pc' = "done") => hull' = NULL]_vars

\* the hull released by add_bound is what uset_simple_hull returns
SimpleHullFreedReturned == pc = "done" /\ aux.freed /\ hull # NULL

(***************************************************************************)
(* isl_set_bounded_simple_hull: the removal of the divs and the release of *)
(* set and hull.                                                           *)
(***************************************************************************)
InBounds(p) == p \in {"bounds", "returned", "failed"}

\* every dimension of the simple hull has an equality or both bounds
AllBounded(h, dim) == \A i \in 0..(dim - 1) : ~NeedsBounds(h, i)

\* isl_set_remove_divs is called at most once, and in a round whose
\* dimension lacks a bound
RemovedOnce ==
    /\ InBounds(pc') => aux'.rm_calls <= 1
    /\ (pc = "bounds" /\ InBounds(pc') /\ aux'.rm_calls # aux.rm_calls) => NeedsBounds(hull, aux.i)

\* with bounds on every dimension the simple hull is returned as it is, no
\* projection is computed and the set is left alone
BoundedUnchanged ==
    (pc' = "returned" /\ AllBounded(aux'.simple, aux'.dim)) =>
        /\ hull' = aux'.simple
        /\ aux'.lacking = {}
        /\ aux'.rm_calls = 0
        /\ set' = set

\* C24: bounded_simple_hull removes the divs at most once, and only when a
\* dimension of the hull lacks a bound; when every dimension of the simple
\* hull has its bounds the simple hull is the result, nothing is projected
\* and the set is not touched; on every failure path both set and hull are
\* released
C24_BoundedHullResources ==
    [][/\ RemovedOnce
       /\ BoundedUnchanged
       /\ pc' = "failed" => aux'.released = {"set", "hull"}]_vars

\* the first two parts of C24 alone
BoundedDivsOnce == [][RemovedOnce /\ BoundedUnchanged]_vars

\* the simple hull came back with all its bounds and was returned
BoundedUnchangedSeen ==
    pc = "returned" /\ Len(set) >= 2 /\ AllBounded(aux.simple, aux.dim) /\ ~Failed(hull) /\ ~hull.empty

\* the divs were removed in the first round and the second round needed
\* bounds as well
RemovedTwiceNeeded == pc = "returned" /\ aux.rm_calls = 1 /\ aux.lacking = {0, 1}

\* isl_set_remove_divs has failed
RemoveDivsFailedSeen == pc = "failed" /\ aux.released = {"set"}

(***************************************************************************)
(* The constituents of the union across common_constraints and across the  *)
(* hashing and the bound search of uset_simple_hull.  Both machines are    *)
(* run with the members as they are on entry kept in aux.entry.            *)
(***************************************************************************)
InitFrame ==
    \/ /\ pc = "start"
       /\ set \in InputsSH
       /\ hull = NULL
       /\ aux = [dim |-> 2, i |-> 0, c |-> 0, j |-> 0, table |-> <<>>, hull_table |-> <<>>,
                 tabs |-> {}, freed |-> FALSE, orig |-> <<>>, entry |-> set]
    \/ /\ pc = "proto"
       /\ set \in {isl_set_normalize(S) : S \in {S \in SeqsUpTo(MembersPH, MaxMembersPH) : Len(S) >= 2}}
       /\ hull = BSet(<<>>, <<>>)
       /\ aux = [table |-> <<>>, best |-> 0, s |-> 1, n |-> 0, prev |-> <<>>, last |-> 0,
                 entry |-> set]

NextFrame == NextProto \/ NextSimpleHull

SpecFrame == InitFrame /\ [][NextFrame]_vars

\* add_bounds is between two equalities or past them, or has returned
AtRest ==
    /\ pc = "pick"
    /\ aux.i >= 1
    /\ aux.i <= Len(set) => (aux.c % 2 = 0 \/ aux.c >= 2 * Len(set[aux.i].eq))

\* an equality of member i is negated while add_bound examines it as the
\* first of its two candidates
MidEquality ==
    /\ pc \in {"prev", "next"}
    /\ aux.c < 2 * Len(set[aux.i].eq)
    /\ aux.c % 2 = 0

\* C25: when common_constraints has returned, when the hashing of
\* uset_simple_hull is done, between the candidates of add_bounds and when
\* the bound search has returned, every equality and inequality of every
\* member of the union has the coefficients and the constant it had on entry
C25_ConstituentsRestored ==
    /\ pc \in {"proto_loop", "proto_end", "done"} => set = aux.entry
    /\ AtRest => set = aux.entry
    /\ MidEquality =>
          set = [aux.entry EXCEPT ![aux.i].eq[(aux.c \div 2) + 1] = isl_seq_neg(@)]

\* a row of member m of the union, equalities first
MemberRows(S, m) == S[m].eq \o S[m].ineq

\* the bound search has returned on a union with an equality, in which an
\* inequality of the first member has a translate with the opposite sign
\* stored in a later member: its constant was negated for the comparison
C25_Witness ==
    /\ pc = "done"
    /\ Len(set) >= 2
    /\ aux.i > Len(set)
    /\ \E m \in DOMAIN set : Len(set[m].eq) > 0
    /\ \E n \in 2..Len(set) : \E r \in DOMAIN set[1].ineq : \E q \in DOMAIN MemberRows(set, n) :
          /\ isl_seq_is_neg(Lin(set[1].ineq[r]), Lin(MemberRows(set, n)[q]))
          /\ MemberRows(set, n)[q][1] # 0

\* common_constraints has returned after members with equalities
FrameProtoSeen == pc = "proto_end" /\ aux.n >= 1 /\ \E m \in DOMAIN set : m # aux.best /\ Len(set[m].eq) > 0

(***************************************************************************)
(* The dimensions wrap_facet is run in.  The hull of a facet is computed   *)
(* by uset_convex_hull_wrap_bounded in the space compute_facet has mapped  *)
(* the union to, which has one dimension less.                             *)
(***************************************************************************)
\* AnsweredBy that asks for a single member only
AnsweredBy_Mut(S, dim) ==
    IF dim = 0 THEN "universe"
    ELSE IF Len(isl_set_normalize(S)) = 1 THEN "copy"
    ELSE "wrap"

\* what uset_convex_hull_wrap_bounded answers a union of dimension dim with
AnsweredBy(S, dim) ==
    IF dim = 0 THEN "universe"
    ELSE IF Len(isl_set_normalize(S)) = 1 THEN "copy"
    ELSE IF dim = 1 THEN "1d"
    ELSE "wrap"

AnsweredAgrees(S, dim) ==
    uset_convex_hull_wrap_bounded(S, dim) =
        (IF AnsweredBy(S, dim) = "universe" THEN isl_basic_set_universe
         ELSE IF AnsweredBy(S, dim) = "copy" THEN isl_set_normalize(S)[1]
         ELSE IF AnsweredBy(S, dim) = "1d" THEN convex_hull_1d(isl_set_normalize(S))
         ELSE uset_convex_hull_wrap(isl_set_normalize(S), dim))

\* the union compute_facet hands to uset_convex_hull_wrap_bounded for the
\* facet c, and its dimension
FacetUnion(S, c, dim) == isl_set_preimage(S, isl_basic_set_remove_equalities(BSet(<<c>>, <<>>), dim).T)
\* every row of the union of the facet c has n coefficients
FacetSpace(S, c, dim, n) ==
    \A m \in DOMAIN FacetUnion(S, c, dim) :
        \A r \in DOMAIN MemberRows(FacetUnion(S, c, dim), m) :
            Len(MemberRows(FacetUnion(S, c, dim), m)[r]) = 1 + n

\* wrap_facet and wrap_constraints clear dim - 2 and dim - 3 entries, where
\* dim is one more than the dimension n of the union
ClearLengths(n) == {(1 + n) - 2, (1 + n) - 3}

\* the number of nested calls of uset_convex_hull_wrap, this one included,
\* that the facet c gives rise to
WrapDepthAt(S, c, dim) == 1 + (IF AnsweredBy(FacetUnion(S, c, dim), dim - 1) = "wrap" THEN 1 ELSE 0)

\* extend is about to compute the facet of a row of hull
AtFacet == InExtend /\ aux.i <= Len(hull.ineq)

FacetAnswered == AtFacet => AnsweredAgrees(FacetUnion(set, hull.ineq[aux.i], aux.dim), aux.dim - 1)

=============================================================================
